---- MODULE Spec2Model ----
(***************************************************************************)
(* ExpensesManager: the dashboard aggregation (pages/Dashboard.tsx), the    *)
(* export engine (components/Export/ExportModal.tsx) and the store hooks    *)
(* (hooks/useCategories.ts, which also holds useTransactions).              *)
(*                                                                         *)
(* Modelling conventions                                                    *)
(*  - An instant (a JS Date / Firestore Timestamp) is an integer whose      *)
(*    order is the order of time: ((year*12 + month)*32 + day)*2 + tick,    *)
(*    month 0..11 as Date.getMonth(), day 1..31, tick 0 = 00:00:00.000 and  *)
(*    tick 1 = 23:59:59.999 of that day.  The local time zone is UTC.       *)
(*  - Amounts are integers (minor units); a quotient is an exact fraction.  *)
(*  - A JS array is a sequence; a React state cell is a variable.           *)
(***************************************************************************)
EXTENDS Integers, Sequences, FiniteSets, TLC

VARIABLES
  transactions,   \* useTransactions: const [transactions, setTransactions]
  categories,     \* useCategories:   const [categories, setCategories]
  now,            \* the clock read by `new Date()`
  stats,          \* Dashboard: the value of the dashboardStats memo (None: not mounted)
  analytics,      \* CategoryAnalytics: the value of the categoryStats memo (None: not mounted)
  \* ExportModal
  dateRange,              \* const [dateRange, setDateRange]: [start, end] day strings
  selectedCategories,     \* const [selectedCategories, setSelectedCategories]
  selectedColumns,        \* const [selectedColumns, setSelectedColumns]
  exportFormat,           \* const [exportFormat, setExportFormat]
  transactionType,        \* const [transactionType, setTransactionType]
  exportLoading,          \* const [loading, setLoading]
  isOpen,                 \* Header's showExportModal, the modal's isOpen prop
  file,                   \* what XLSX.writeFile last wrote (None: nothing)
  transactionsWithBalance,\* exportData's local of that name in its last run
  effects,                \* what the most recent event handler did, in order: toasts,
                          \* setLoading calls, file writes, onClose, throws
  \* the Firestore collections and the hooks' subscriptions
  userId,         \* the userId argument of both hooks ("" when signed out)
  catStore,       \* collection(db, 'categories'): a set of documents
  txStore,        \* collection(db, 'transactions'): a set of documents
  nextId,         \* how many documents addDoc has created (the next document's id)
  subs,           \* the live onSnapshot listeners: [inst, hook, uid, due], due when the
                  \* listener has a snapshot to deliver
  docCap,         \* how many documents addDoc may create in this run (set by Init)
  seedQueue,      \* the addDoc calls of default seeding that are still in flight
  catLoading,     \* useCategories:   const [loading, setLoading]
  txLoading,      \* useTransactions: const [loading, setLoading]
  hasMore,        \* useTransactions: const [hasMore, setHasMore]
  delivered,      \* the snapshot the most recent event delivered (None: it was no delivery)
  inflight,       \* loadMore calls awaiting getDocs: [uid, cursor, served, result]
  \* TransactionModal and CategoryModal
  txForm,         \* TransactionModal: isOpen, loading, the transaction prop, the form values
  catForm,        \* CategoryModal: isOpen, loading, the category prop, the form values
  \* useAuth
  user,           \* const [user, setUser] (None: null)
  firebaseUser,   \* const [firebaseUser, setFirebaseUser]: what the auth listener last observed
  authLoading,    \* const [loading, setLoading]
  authCalls,      \* runs of the auth listener's callback suspended at an await: [uid, step]
  userDocs,       \* collection(db, 'users'): a set of documents
  authChanges     \* how many auth states the listener has observed

authVars == <<user, firebaseUser, authLoading, authCalls, userDocs, authChanges>>
\* Dashboard's own values; its `user` comes from useAuth
dashVars == <<now, stats, analytics, authVars>>
listVars == <<transactions, categories>>
exportVars == <<dateRange, selectedCategories, selectedColumns, exportFormat, transactionType,
                exportLoading, isOpen, file, transactionsWithBalance, effects>>
storeVars == <<userId, catStore, txStore, nextId, subs, docCap, seedQueue>>
hookVars == <<catLoading, txLoading, hasMore, delivered, inflight>>
formVars == <<txForm, catForm>>

\* undefined / null
None == [none |-> TRUE]

\* ------------------------------------------------------------------ bounds
MaxTx == 2          \* documents in a transaction list
MaxDocs == 2        \* documents addDoc creates in a run of the stores
NumDefaults == 2    \* how many of the DEFAULT_CATEGORIES the seeding writes
LimitCount == 2     \* useTransactions' limitCount (50 in the source)
MaxPageDocs == 3    \* transaction documents created in a run of the pagination
MaxInflight == 1    \* loadMore calls awaiting their getDocs at one time
MaxAuthChanges == 3 \* auth states the listener observes in a run of useAuth
MaxModalDocs == 1   \* documents created through the modals in a run

\* ------------------------------------------------------------------ generic helpers
Min(a, b) == IF a < b THEN a ELSE b

RECURSIVE Gcd(_, _)
Gcd(a, b) == IF b = 0 THEN a ELSE Gcd(b, a % b)

Abs(x) == IF x < 0 THEN -x ELSE x

\* n / d as a JS number: the exact fraction in lowest terms with den > 0;
\* den = 0 stands for Infinity (num = 1), -Infinity (num = -1) and NaN (num = 0).
Quot(n, d) ==
  IF d = 0 THEN [num |-> IF n > 0 THEN 1 ELSE IF n < 0 THEN -1 ELSE 0, den |-> 0]
  ELSE LET g == Gcd(Abs(n), Abs(d))
           sn == IF d < 0 THEN -n ELSE n
       IN  [num |-> sn \div g, den |-> Abs(d) \div g]

Zero == [num |-> 0, den |-> 1]

\* array.filter(pred)
Filter(s, P(_)) == SelectSeq(s, P)

\* array.reduce((sum, t) => sum + t.amount, 0)
RECURSIVE SumAmount(_)
SumAmount(s) == IF s = <<>> THEN 0 ELSE s[1].amount + SumAmount(Tail(s))

SeqToSet(s) == {s[i] : i \in 1..Len(s)}

\* ------------------------------------------------------------------ calendar (Date, date-fns)
Instant(y, m, d, tick) == ((y * 12 + m) * 32 + d) * 2 + tick

MonthIdx(t) == t \div 64               \* year*12 + month
YearOf(t)   == MonthIdx(t) \div 12     \* Date.getFullYear()
MonthOf(t)  == MonthIdx(t) % 12        \* Date.getMonth()
DayOf(t)    == (t \div 2) % 32         \* Date.getDate()
TickOf(t)   == t % 2

IsLeap(y) == (y % 4 = 0 /\ y % 100 # 0) \/ y % 400 = 0

\* the number of days of month index mi (what setMonth(m + 1, 0).getDate() yields)
DaysInMonth(mi) ==
  LET m == mi % 12
      y == mi \div 12
  IN  IF m = 1 THEN (IF IsLeap(y) THEN 29 ELSE 28)
      ELSE IF m \in {3, 5, 8, 10} THEN 30 ELSE 31

\* date-fns startOfMonth: setDate(1); setHours(0, 0, 0, 0)
startOfMonth(t) == (MonthIdx(t) * 32 + 1) * 2

\* date-fns endOfMonth: setFullYear(y, m + 1, 0); setHours(23, 59, 59, 999)
endOfMonth(t) == (MonthIdx(t) * 32 + DaysInMonth(MonthIdx(t))) * 2 + 1

\* (mutant) Date.setMonth(m - n) alone: a day the month lacks rolls into the next month
subMonths_rollOver(t, n) ==
  LET mi == MonthIdx(t) - n
  IN  IF DayOf(t) > DaysInMonth(mi)
      THEN ((mi + 1) * 32 + (DayOf(t) - DaysInMonth(mi))) * 2 + TickOf(t)
      ELSE (mi * 32 + DayOf(t)) * 2 + TickOf(t)

\* date-fns addMonths(date, -n): the same day of the month n months earlier, or the
\* last day of that month when it is shorter; the time of day is kept.
subMonths(t, n) ==
  LET mi == MonthIdx(t) - n
  IN  (mi * 32 + Min(DayOf(t), DaysInMonth(mi))) * 2 + TickOf(t)

\* date-fns eachMonthOfInterval: from the first day of start's month, 00:00, push the
\* date and step one month while it is not after end.
RECURSIVE MonthsFrom(_, _)
MonthsFrom(cur, end) ==
  IF cur > end THEN <<>>
  ELSE <<cur>> \o MonthsFrom(((MonthIdx(cur) + 1) * 32 + 1) * 2, end)

eachMonthOfInterval(start, end) == MonthsFrom(startOfMonth(start), end)

\* date-fns format(d, 'MMM yyyy'): the month's name and the year
MonthNames == <<"Jan", "Feb", "Mar", "Apr", "May", "Jun",
                "Jul", "Aug", "Sep", "Oct", "Nov", "Dec">>

formatMMMyyyy(t) == <<MonthNames[MonthOf(t) + 1], YearOf(t)>>

\* A day string 'yyyy-MM-dd' is <<year, month 1..12, day>>; 'dd/MM/yyyy' is
\* <<day, month 1..12, year>>.
\* new Date('yyyy-MM-dd'): midnight (UTC) of that day
parseDate(day) == Instant(day[1], day[2] - 1, day[3], 0)

\* date-fns format(d, 'yyyy-MM-dd')
formatyyyyMMdd(t) == <<YearOf(t), MonthOf(t) + 1, DayOf(t)>>

\* date-fns format(d, 'dd/MM/yyyy')
formatddMMyyyy(t) == <<DayOf(t), MonthOf(t) + 1, YearOf(t)>>

\* ------------------------------------------------------------------ Dashboard.tsx: dashboardStats
\* (mutant) the first instant of the month left out
inMonthOf_openStart(t, ref) == t.date > startOfMonth(ref) /\ t.date <= endOfMonth(ref)

\* t.date.toDate() >= start && t.date.toDate() <= end
\* (Timestamp.toDate() keeps the instant at this resolution)
inMonthOf(t, ref) == t.date >= startOfMonth(ref) /\ t.date <= endOfMonth(ref)

currentMonthTransactions(txs, n) == Filter(txs, LAMBDA t : inMonthOf(t, n))

lastMonthTransactions(txs, n) == Filter(txs, LAMBDA t : inMonthOf(t, subMonths(n, 1)))

\* .filter(t => t.type === 'income').reduce((sum, t) => sum + t.amount, 0)
incomeOf(txs) == SumAmount(Filter(txs, LAMBDA t : t.type = "income"))

\* .filter(t => t.type === 'expense').reduce((sum, t) => sum + t.amount, 0)
expensesOf(txs) == SumAmount(Filter(txs, LAMBDA t : t.type = "expense"))

incomeChange(currentIncome, lastIncome) ==
  IF lastIncome > 0 THEN Quot((currentIncome - lastIncome) * 100, lastIncome) ELSE Zero

expenseChange(currentExpenses, lastExpenses) ==
  IF lastExpenses > 0 THEN Quot((currentExpenses - lastExpenses) * 100, lastExpenses) ELSE Zero

\* (mutant) the guard tests for zero only
balanceChange_guardNonZero(balance, lastBalance) ==
  IF lastBalance # 0 THEN Quot((balance - lastBalance) * 100, lastBalance) ELSE Zero

balanceChange(balance, lastBalance) ==
  IF lastBalance > 0 THEN Quot((balance - lastBalance) * 100, lastBalance) ELSE Zero

\* categoryMap = new Map(); categories.forEach(cat => categoryMap.set(cat.id, cat));
\* categoryMap.get(id): the last category of the list with that id, or undefined
RECURSIVE categoryMapGet(_, _)
categoryMapGet(cats, id) ==
  IF cats = <<>> THEN None
  ELSE IF cats[Len(cats)].id = id THEN cats[Len(cats)]
  ELSE categoryMapGet(SubSeq(cats, 1, Len(cats) - 1), id)

OtherName  == "Other"
OtherColor == "#6B7280"

\* category?.name || 'Other'
categoryNameOf(category) ==
  IF category = None \/ category.name = "" THEN OtherName ELSE category.name

\* category?.color || '#6B7280'
categoryColorOf(category) ==
  IF category = None \/ category.color = "" THEN OtherColor ELSE category.color

\* The accumulator of the reduce is the object literal {}: acc[name] of a name that
\* Object.prototype defines (toString, constructor, ...) is that inherited value,
\* which is truthy, although acc has no own property of that name.
InheritedKeys == {"toString"}

HasOwn(acc, name) == \E i \in 1..Len(acc) : acc[i].name = name

\* One step of the reduce callback.  acc is the list of own properties of the
\* accumulator in insertion order, each [name, value, color].
byCategoryStep(acc, t, cats) ==
  LET category      == categoryMapGet(cats, t.categoryId)
      categoryName  == categoryNameOf(category)
      categoryColor == categoryColorOf(category)
      created == IF ~HasOwn(acc, categoryName) /\ categoryName \notin InheritedKeys
                 THEN Append(acc, [name |-> categoryName, value |-> 0, color |-> categoryColor])
                 ELSE acc
  IN  \* acc[categoryName].value += t.amount: on the own entry when there is one,
      \* else on the inherited object, which leaves acc's own properties alone
      [i \in 1..Len(created) |->
         IF created[i].name = categoryName
         THEN [created[i] EXCEPT !.value = @ + t.amount]
         ELSE created[i]]

RECURSIVE byCategoryReduce(_, _, _)
byCategoryReduce(acc, txs, cats) ==
  IF txs = <<>> THEN acc
  ELSE byCategoryReduce(byCategoryStep(acc, txs[1], cats), Tail(txs), cats)

expensesByCategory(txs, cats, n) ==
  byCategoryReduce(<<>>,
                   Filter(currentMonthTransactions(txs, n), LAMBDA t : t.type = "expense"),
                   cats)

\* Object.entries(expensesByCategory).map(([name, data]) => ({name, value, color}))
chartData(txs, cats, n) == expensesByCategory(txs, cats, n)

\* (variant) the six months before the current one
monthsRange_beforeCurrent(n) ==
  eachMonthOfInterval(startOfMonth(subMonths(n, 6)), endOfMonth(subMonths(n, 1)))

\* monthsRange: eachMonthOfInterval({start: startOfMonth(subMonths(now, 5)), end: endOfMonth(now)})
monthsRange(n) == eachMonthOfInterval(startOfMonth(subMonths(n, 5)), endOfMonth(n))

monthEntry(txs, month) ==
  LET monthTransactions == Filter(txs, LAMBDA t : inMonthOf(t, month))
      monthIncome   == incomeOf(monthTransactions)
      monthExpenses == expensesOf(monthTransactions)
  IN  [month      |-> formatMMMyyyy(month),
       income     |-> monthIncome,
       expenses   |-> monthExpenses,
       netBalance |-> monthIncome - monthExpenses]

incomeExpenseData(txs, n) ==
  LET months == monthsRange(n)
  IN  [i \in 1..Len(months) |-> monthEntry(txs, months[i])]

dashboardStats(txs, cats, n) ==
  LET cur            == currentMonthTransactions(txs, n)
      last           == lastMonthTransactions(txs, n)
      currentIncome   == incomeOf(cur)
      currentExpenses == expensesOf(cur)
      lastIncome      == incomeOf(last)
      lastExpenses    == expensesOf(last)
      balance         == currentIncome - currentExpenses
      lastBalance     == lastIncome - lastExpenses
  IN  [totalIncome       |-> currentIncome,
       totalExpenses     |-> currentExpenses,
       balance           |-> balance,
       incomeChange      |-> incomeChange(currentIncome, lastIncome),
       expenseChange     |-> expenseChange(currentExpenses, lastExpenses),
       balanceChange     |-> balanceChange(balance, lastBalance),
       transactionCount  |-> Len(cur),
       chartData         |-> chartData(txs, cats, n),
       incomeExpenseData |-> incomeExpenseData(txs, n)]

\* ------------------------------------------------------------------ CategoryAnalytics.tsx: categoryStats
\* One step of the forEach for the transactions of one kind: a transaction whose
\* category is not in the map is skipped; map is the Map's entries in insertion order
groupStep(map, transaction, cats) ==
  LET category == categoryMapGet(cats, transaction.categoryId)
  IN  IF category = None THEN map
      ELSE IF \E i \in 1..Len(map) : map[i].category.id = category.id
      THEN [i \in 1..Len(map) |->
              IF map[i].category.id = category.id
              THEN [amount |-> map[i].amount + transaction.amount,
                    count |-> map[i].count + 1, category |-> category]
              ELSE map[i]]
      ELSE Append(map, [amount |-> transaction.amount, count |-> 1, category |-> category])

RECURSIVE groupAll(_, _, _)
groupAll(map, txs, cats) ==
  IF txs = <<>> THEN map ELSE groupAll(groupStep(map, txs[1], cats), Tail(txs), cats)

\* .sort((a, b) => b.amount - a.amount): stable, largest amount first
RECURSIVE InsertByAmount(_, _)
InsertByAmount(sorted, e) ==
  IF sorted = <<>> THEN <<e>>
  ELSE IF sorted[Len(sorted)].amount >= e.amount THEN Append(sorted, e)
  ELSE Append(InsertByAmount(SubSeq(sorted, 1, Len(sorted) - 1), e), sorted[Len(sorted)])

RECURSIVE sortByAmount(_, _)
sortByAmount(sorted, rest) ==
  IF rest = <<>> THEN sorted ELSE sortByAmount(InsertByAmount(sorted, rest[1]), Tail(rest))

\* the categoryStats memo: the current month's transactions grouped by category into
\* incomeByCategory (type 'income') or expenseByCategory (any other type), each
\* sorted, and the totals of the grouped amounts
categoryStats(txs, cats, n) ==
  LET cur == currentMonthTransactions(txs, n)
      incomeCategories  == sortByAmount(<<>>, groupAll(<<>>,
                             Filter(cur, LAMBDA t : t.type = "income"), cats))
      expenseCategories == sortByAmount(<<>>, groupAll(<<>>,
                             Filter(cur, LAMBDA t : t.type # "income"), cats))
  IN  [incomeCategories  |-> incomeCategories,
       expenseCategories |-> expenseCategories,
       totalIncome       |-> SumAmount(incomeCategories),
       totalExpenses     |-> SumAmount(expenseCategories)]

\* ------------------------------------------------------------------ ExportModal.tsx
EXPORT_COLUMNS ==
  <<[key |-> "date",          label |-> "Date",            default |-> TRUE],
    [key |-> "type",          label |-> "Type",            default |-> TRUE],
    [key |-> "category",      label |-> "Category",        default |-> TRUE],
    [key |-> "description",   label |-> "Description",     default |-> TRUE],
    [key |-> "amount",        label |-> "Amount",          default |-> TRUE],
    [key |-> "paymentMethod", label |-> "Payment Method",  default |-> FALSE],
    [key |-> "tags",          label |-> "Tags",            default |-> FALSE],
    [key |-> "balance",       label |-> "Running Balance", default |-> FALSE]>>

\* EXPORT_COLUMNS.filter(col => col.default).map(col => col.key)
DefaultColumns ==
  LET d == Filter(EXPORT_COLUMNS, LAMBDA col : col.default)
  IN  [i \in 1..Len(d) |-> d[i].key]

\* array.includes(x)
Includes(s, x) == \E i \in 1..Len(s) : s[i] = x

\* the state of a freshly mounted ExportModal (useState initial values), closed
ExportModalInit ==
  /\ dateRange = [start |-> formatyyyyMMdd(startOfMonth(subMonths(now, 2))),
                  end   |-> formatyyyyMMdd(endOfMonth(now))]
  /\ selectedCategories = <<>>
  /\ selectedColumns = DefaultColumns
  /\ exportFormat = "excel"
  /\ transactionType = "all"
  /\ exportLoading = FALSE
  /\ isOpen = FALSE
  /\ file = None
  /\ transactionsWithBalance = <<>>
  /\ effects = <<>>

\* (mutant) the end day left out
dateMatch_openEnd(transaction, range) ==
  /\ transaction.date >= parseDate(range.start)
  /\ transaction.date < parseDate(range.end)

\* transactionDate >= startDate && transactionDate <= endDate
dateMatch(transaction, range) ==
  /\ transaction.date >= parseDate(range.start)
  /\ transaction.date <= parseDate(range.end)

categoryMatch(transaction, selCats) ==
  Len(selCats) = 0 \/ Includes(selCats, transaction.categoryId)

typeMatch(transaction, type) == type = "all" \/ transaction.type = type

filteredTransactions(txs, range, selCats, type) ==
  Filter(txs, LAMBDA transaction :
                /\ dateMatch(transaction, range)
                /\ categoryMatch(transaction, selCats)
                /\ typeMatch(transaction, type))

\* Array.prototype.sort((a, b) => a.date - b.date): a stable sort, here by insertion
RECURSIVE InsertByDate(_, _)
InsertByDate(sorted, t) ==
  IF sorted = <<>> THEN <<t>>
  ELSE IF sorted[Len(sorted)].date <= t.date THEN Append(sorted, t)
  ELSE Append(InsertByDate(SubSeq(sorted, 1, Len(sorted) - 1), t), sorted[Len(sorted)])

RECURSIVE SortFrom(_, _)
SortFrom(sorted, rest) ==
  IF rest = <<>> THEN sorted ELSE SortFrom(InsertByDate(sorted, rest[1]), Tail(rest))

\* (mutant) the copy is not sorted
sortedTransactions_unsorted(filtered) == filtered

\* [...filteredTransactions].sort((a, b) => a.date.toDate().getTime() - b.date.toDate().getTime())
sortedTransactions(filtered) == SortFrom(<<>>, filtered)

\* (mutant) an expense is added like an income
signedAmount_unsigned(transaction) == transaction.amount

\* balance += amount for an income, balance -= amount otherwise
signedAmount(transaction) ==
  IF transaction.type = "income" THEN transaction.amount ELSE -transaction.amount

RECURSIVE runningFrom(_, _)
runningFrom(balance, txs) ==
  IF txs = <<>> THEN <<>>
  ELSE LET b == balance + signedAmount(txs[1])
       IN  <<[tx |-> txs[1], runningBalance |-> b]>> \o runningFrom(b, Tail(txs))

\* each row is {...transaction, runningBalance: balance}: the transaction and the balance
calculateRunningBalance(txs) == runningFrom(0, txs)

\* transaction.type.charAt(0).toUpperCase() + transaction.type.slice(1)
Capitalize(type) == IF type = "income" THEN "Income" ELSE "Expense"

\* transaction.tags?.join(', ') || ''
RECURSIVE joinTags(_)
joinTags(tags) ==
  IF tags = <<>> THEN ""
  ELSE IF Len(tags) = 1 THEN tags[1]
  ELSE tags[1] \o ", " \o joinTags(Tail(tags))

ColumnValue(key, row, cats) ==
  CASE key = "date"          -> [label |-> "Date",            value |-> formatddMMyyyy(row.tx.date)]
    [] key = "type"          -> [label |-> "Type",            value |-> Capitalize(row.tx.type)]
    [] key = "category"      -> [label |-> "Category",
                                 value |-> categoryNameOf(categoryMapGet(cats, row.tx.categoryId))]
    [] key = "description"   -> [label |-> "Description",     value |-> row.tx.description]
    [] key = "amount"        -> [label |-> "Amount",          value |-> row.tx.amount]
    [] key = "paymentMethod" -> [label |-> "Payment Method",  value |-> row.tx.paymentMethod]
    [] key = "tags"          -> [label |-> "Tags",            value |-> joinTags(row.tx.tags)]
    [] key = "balance"       -> [label |-> "Running Balance", value |-> row.runningBalance]

\* one row of the Transactions sheet: the selected columns, in EXPORT_COLUMNS' order
projectRow(row, columns, cats) ==
  LET keys == Filter([i \in 1..Len(EXPORT_COLUMNS) |-> EXPORT_COLUMNS[i].key],
                     LAMBDA k : Includes(columns, k))
  IN  [i \in 1..Len(keys) |-> ColumnValue(keys[i], row, cats)]

\* utils/currency formatCurrency: the amount as a currency string
formatCurrency(n) == [currency |-> n]

\* (variant) the expenses are left out of the net balance
SumSigned_incomeOnly(txs) == incomeOf(txs)

\* .reduce((sum, t) => sum + (t.type === 'income' ? t.amount : -t.amount), 0)
RECURSIVE SumSigned(_)
SumSigned(txs) == IF txs = <<>> THEN 0 ELSE signedAmount(txs[1]) + SumSigned(Tail(txs))

summarySheet(filtered, range) ==
  [dateRange         |-> <<formatddMMyyyy(parseDate(range.start)),
                           formatddMMyyyy(parseDate(range.end))>>,
   totalTransactions |-> Len(filtered),
   totalIncome       |-> formatCurrency(incomeOf(filtered)),
   totalExpenses     |-> formatCurrency(expensesOf(filtered)),
   netBalance        |-> formatCurrency(SumSigned(filtered))]

Effect(op, arg) == [op |-> op, arg |-> arg]

NoTransactionsMsg == "No transactions found for the selected criteria"

\* (mutant) the emptiness test comes after setLoading(true), inside the try block
exportNothing_afterLoading ==
  /\ effects' = <<Effect("setLoading", "true"),
                  Effect("toast.error", NoTransactionsMsg),
                  Effect("setLoading", "false")>>
  /\ file' = None
  /\ transactionsWithBalance' = <<>>
  /\ exportLoading' = FALSE
  /\ UNCHANGED isOpen

\* if (filteredTransactions.length === 0) { toast.error(...); return; }
exportNothing ==
  /\ effects' = <<Effect("toast.error", NoTransactionsMsg)>>
  /\ file' = None
  /\ transactionsWithBalance' = <<>>
  /\ UNCHANGED <<exportLoading, isOpen>>

\* the try block runs to its end: the file is written, then toast.success and onClose
exportWritten(filtered, withBalance) ==
  /\ transactionsWithBalance' = withBalance
  /\ file' = [fileName |-> [date |-> formatyyyyMMdd(now),
                            ext  |-> IF exportFormat = "excel" THEN "xlsx" ELSE "csv"],
              Transactions |-> [i \in 1..Len(withBalance) |->
                                  projectRow(withBalance[i], selectedColumns, categories)],
              Summary |-> summarySheet(filtered, dateRange)]
  /\ effects' = <<Effect("setLoading", "true"),
                  Effect("XLSX.writeFile", "written"),
                  Effect("toast.success", "Data exported successfully!"),
                  Effect("onClose", ""),
                  Effect("setLoading", "false")>>
  /\ isOpen' = FALSE
  /\ exportLoading' = FALSE

\* XLSX.writeFile throws: catch reports it, finally resets loading
exportFailed(withBalance) ==
  /\ transactionsWithBalance' = withBalance
  /\ file' = None
  /\ effects' = <<Effect("setLoading", "true"),
                  Effect("toast.error", "Failed to export data"),
                  Effect("setLoading", "false")>>
  /\ exportLoading' = FALSE
  /\ UNCHANGED isOpen

\* exportData: the whole handler.  Nothing in its try block awaits, so it runs to its
\* end in one step, and loading is false again when it returns.
exportData ==
  LET filtered == filteredTransactions(transactions, dateRange, selectedCategories,
                                       transactionType)
      withBalance == calculateRunningBalance(sortedTransactions(filtered))
  IN  IF Len(filtered) = 0
      THEN exportNothing
      ELSE exportWritten(filtered, withBalance) \/ exportFailed(withBalance)

\* ------------------------------------------------------------------ useCategories.ts: the stores and the hooks
DEFAULT_CATEGORIES ==
  <<[name |-> "Salary",         type |-> "income",  color |-> "#10B981", icon |-> "Wallet"],
    [name |-> "Freelance",      type |-> "income",  color |-> "#8B5CF6", icon |-> "Laptop"],
    [name |-> "Investments",    type |-> "income",  color |-> "#F59E0B", icon |-> "TrendingUp"],
    [name |-> "Business",       type |-> "income",  color |-> "#3B82F6", icon |-> "Building"],
    [name |-> "Gifts",          type |-> "income",  color |-> "#EC4899", icon |-> "Gift"],
    [name |-> "Food",           type |-> "expense", color |-> "#EF4444", icon |-> "Coffee"],
    [name |-> "Transportation", type |-> "expense", color |-> "#6366F1", icon |-> "Car"],
    [name |-> "Housing",        type |-> "expense", color |-> "#8B5CF6", icon |-> "Home"],
    [name |-> "Utilities",      type |-> "expense", color |-> "#059669", icon |-> "Zap"],
    [name |-> "Healthcare",     type |-> "expense", color |-> "#DC2626", icon |-> "Heart"],
    [name |-> "Entertainment",  type |-> "expense", color |-> "#F59E0B", icon |-> "Film"],
    [name |-> "Shopping",       type |-> "expense", color |-> "#EC4899", icon |-> "ShoppingBag"],
    [name |-> "Education",      type |-> "expense", color |-> "#3B82F6", icon |-> "BookOpen"],
    [name |-> "Travel",         type |-> "expense", color |-> "#06B6D4", icon |-> "Plane"]>>

\* Outside the specification of useAuth the hook stays as it is constructed.
AuthIdle ==
  /\ user = None
  /\ firebaseUser = None
  /\ authLoading = TRUE
  /\ authCalls = <<>>
  /\ userDocs = {}
  /\ authChanges = 0

\* The specifications of the dashboard and of the export leave the stores out: there
\* the lists change by DeliverOneMore, and these variables keep their first values.
HooksIdle ==
  /\ userId = "u1"
  /\ catStore = {}
  /\ txStore = {}
  /\ nextId = 1
  /\ subs = {}
  /\ docCap = 0
  /\ seedQueue = <<>>
  /\ catLoading = TRUE
  /\ txLoading = TRUE
  /\ hasMore = TRUE
  /\ delivered = None
  /\ inflight = <<>>

\* neither modal is rendered
ModalsClosed ==
  /\ txForm = None
  /\ catForm = None


\* ------------------------------------------------------------------ inputs of the dashboard
Types       == {"income", "expense"}
CategoryIds == {"c1", "c2"}
\* display names a user can give a category (CategoryModal: 1 to 50 characters)
Names   == {"Food", "Rent", "toString"}
ColorOf == [c \in CategoryIds |-> IF c = "c1" THEN "#EF4444" ELSE "#3B82F6"]

\* the non-empty category lists a snapshot delivers: document ids are unique
CategoryLists ==
  {<<[id |-> "c1", name |-> n1, color |-> ColorOf["c1"]]>> : n1 \in Names}
  \cup {<<[id |-> "c1", name |-> n1, color |-> ColorOf["c1"]],
          [id |-> "c2", name |-> n2, color |-> ColorOf["c2"]]>> : n1 \in Names, n2 \in Names}

\* the reference dates: the last day of July (February is five months back, June one),
\* the last day of March (February is one month back), mid January (the year wraps)
RefDates == {Instant(2024, 6, 31, 1), Instant(2024, 2, 31, 0), Instant(2024, 0, 15, 1)}

FirstDay(mi) == (mi * 32 + 1) * 2
LastDay(mi)  == (mi * 32 + DaysInMonth(mi)) * 2

\* TransactionModal stores Timestamp.fromDate(new Date('yyyy-MM-dd')): midnight of a
\* day.  The days tried lie on both edges of the reference month and of the month
\* before, and outside both.
TxDates(n) ==
  LET mi == MonthIdx(n)
  IN  {FirstDay(mi), LastDay(mi), FirstDay(mi - 1), LastDay(mi - 1), LastDay(mi - 2)}

RECURSIVE Pow2(_)
Pow2(k) == IF k = 0 THEN 1 ELSE 2 * Pow2(k - 1)

\* The i-th document of a list has id i and amount 2^(i-1): a sum of amounts tells
\* which documents were added up.
NewTx(i, type, categoryId, date) ==
  [id |-> i, type |-> type, amount |-> Pow2(i - 1), categoryId |-> categoryId, date |-> date,
   description |-> "note", paymentMethod |-> "Online Payment", tags |-> <<>>]

\* The transaction list a snapshot delivers holds one more document than the last one,
\* dated one of `dates`; the query (orderBy date desc) puts it last.
DeliverOneMore(dates) ==
  /\ Len(transactions) < MaxTx
  /\ \E type \in Types, categoryId \in CategoryIds, date \in dates :
       /\ transactions # <<>> => date <= transactions[Len(transactions)].date
       /\ transactions' = Append(transactions,
                                 NewTx(Len(transactions) + 1, type, categoryId, date))

\* ------------------------------------------------------------------ the dashboard as a state machine
vars == <<transactions, categories, now, stats, analytics, exportVars, storeVars, hookVars, formVars, authVars>>

InitDash ==
  /\ now \in RefDates
  /\ categories = <<>>
  /\ transactions = <<>>
  /\ stats = dashboardStats(<<>>, <<>>, now)
  /\ analytics = categoryStats(<<>>, <<>>, now)
  /\ AuthIdle
  /\ ExportModalInit
  /\ HooksIdle
  /\ ModalsClosed

\* useTransactions' onSnapshot callback delivers a longer list; Dashboard re-renders and
\* the memo, whose dependencies are [transactions, categories], is evaluated again.
DashTransactionsSnapshot ==
  /\ DeliverOneMore(TxDates(now))
  /\ stats' = dashboardStats(transactions', categories, now)
  /\ analytics' = categoryStats(transactions', categories, now)
  /\ UNCHANGED <<categories, now, exportVars, storeVars, hookVars, formVars, authVars>>

\* useCategories' onSnapshot callback delivers its first non-empty list
DashCategoriesSnapshot ==
  /\ categories = <<>>
  /\ \E list \in CategoryLists : categories' = list
  /\ stats' = dashboardStats(transactions, categories', now)
  /\ analytics' = categoryStats(transactions, categories', now)
  /\ UNCHANGED <<transactions, now, exportVars, storeVars, hookVars, formVars, authVars>>

NextDash == DashTransactionsSnapshot \/ DashCategoriesSnapshot

SpecDash == InitDash /\ [][NextDash]_vars

\* ------------------------------------------------------------------ the export modal as a state machine
ExportNow      == Instant(2024, 6, 31, 1)
RangeDays      == {<<2024, 5, 1>>, <<2024, 7, 31>>}
ExportTxDates  == {parseDate(<<2024, 5, 1>>), parseDate(<<2024, 6, 15>>), parseDate(<<2024, 7, 31>>)}
ExportCategories ==
  <<[id |-> "c1", name |-> "Food", color |-> ColorOf["c1"]],
    [id |-> "c2", name |-> "Rent", color |-> ColorOf["c2"]]>>

InitExport ==
  /\ now = ExportNow
  /\ categories = ExportCategories
  /\ transactions = <<>>
  /\ stats = None
  /\ analytics = None
  /\ AuthIdle
  /\ ExportModalInit
  /\ HooksIdle
  /\ ModalsClosed

\* file, transactionsWithBalance and effects tell what the most recent handler did
NoOutput ==
  /\ effects' = <<>>
  /\ file' = None
  /\ transactionsWithBalance' = <<>>

\* Header: onClick={() => setShowExportModal(true)}
OpenExportModal ==
  /\ ~isOpen
  /\ isOpen' = TRUE
  /\ NoOutput
  /\ UNCHANGED <<listVars, dashVars, storeVars, hookVars, formVars, dateRange, selectedCategories, selectedColumns,
                 exportFormat, transactionType, exportLoading>>

\* the X and Cancel buttons: onClick={onClose}
CloseExportModal ==
  /\ isOpen
  /\ isOpen' = FALSE
  /\ NoOutput
  /\ UNCHANGED <<listVars, dashVars, storeVars, hookVars, formVars, dateRange, selectedCategories, selectedColumns,
                 exportFormat, transactionType, exportLoading>>

\* the date inputs: setDateRange(prev => ({...prev, start: e.target.value})), and end
SetDateRange ==
  /\ isOpen
  /\ \E day \in RangeDays :
       \/ day # dateRange.start /\ dateRange' = [dateRange EXCEPT !.start = day]
       \/ day # dateRange.end /\ dateRange' = [dateRange EXCEPT !.end = day]
  /\ NoOutput
  /\ UNCHANGED <<listVars, dashVars, storeVars, hookVars, formVars, selectedCategories, selectedColumns, exportFormat,
                 transactionType, exportLoading, isOpen>>

SetTransactionType ==
  /\ isOpen
  /\ \E type \in {"all", "income", "expense"} :
       type # transactionType /\ transactionType' = type
  /\ NoOutput
  /\ UNCHANGED <<listVars, dashVars, storeVars, hookVars, formVars, dateRange, selectedCategories, selectedColumns,
                 exportFormat, exportLoading, isOpen>>

\* prev.includes(id) ? prev.filter(x => x !== id) : [...prev, id]
toggle(prev, x) ==
  IF Includes(prev, x) THEN Filter(prev, LAMBDA y : y # x) ELSE Append(prev, x)

\* a category checkbox of the list: handleCategoryToggle(category.id)
handleCategoryToggle ==
  /\ isOpen
  /\ \E i \in 1..Len(categories) :
       selectedCategories' = toggle(selectedCategories, categories[i].id)
  /\ NoOutput
  /\ UNCHANGED <<listVars, dashVars, storeVars, hookVars, formVars, dateRange, selectedColumns, exportFormat,
                 transactionType, exportLoading, isOpen>>

\* 'Clear All': setSelectedCategories([])
ClearCategories ==
  /\ isOpen
  /\ selectedCategories # <<>>
  /\ selectedCategories' = <<>>
  /\ NoOutput
  /\ UNCHANGED <<listVars, dashVars, storeVars, hookVars, formVars, dateRange, selectedColumns, exportFormat,
                 transactionType, exportLoading, isOpen>>

\* useTransactions' onSnapshot callback delivers a longer list to the modal's hook
ExportTransactionsSnapshot ==
  /\ DeliverOneMore(ExportTxDates)
  /\ NoOutput
  /\ UNCHANGED <<categories, dashVars, storeVars, hookVars, formVars, dateRange, selectedCategories, selectedColumns,
                 exportFormat, transactionType, exportLoading, isOpen>>

\* exportData is called
ExportData ==
  /\ isOpen
  /\ exportData
  /\ UNCHANGED <<listVars, dashVars, storeVars, hookVars, formVars, dateRange, selectedCategories, selectedColumns,
                 exportFormat, transactionType>>

NextExport ==
  \/ OpenExportModal
  \/ CloseExportModal
  \/ SetDateRange
  \/ SetTransactionType
  \/ handleCategoryToggle
  \/ ClearCategories
  \/ ExportTransactionsSnapshot
  \/ ExportData

SpecExport == InitExport /\ [][NextExport]_vars


\* ------------------------------------------------------------------ the export modal: columns and the export button
\* the column checkboxes that are clicked: those of the columns selected by default
ToggledColumns == {DefaultColumns[i] : i \in 1..Len(DefaultColumns)}

\* a column checkbox: handleColumnToggle(column.key)
handleColumnToggle ==
  /\ isOpen
  /\ \E key \in ToggledColumns : selectedColumns' = toggle(selectedColumns, key)
  /\ NoOutput
  /\ UNCHANGED <<listVars, dashVars, storeVars, hookVars, formVars, dateRange,
                 selectedCategories, exportFormat, transactionType, exportLoading, isOpen>>

\* (variant) the button is not disabled by an empty column selection
exportDisabled_ignoresColumns ==
  \/ exportLoading
  \/ Len(filteredTransactions(transactions, dateRange, selectedCategories,
                              transactionType)) = 0

\* disabled={loading || filteredTransactions.length === 0 || selectedColumns.length === 0}
exportDisabled ==
  \/ exportLoading
  \/ Len(filteredTransactions(transactions, dateRange, selectedCategories,
                              transactionType)) = 0
  \/ Len(selectedColumns) = 0

\* (variant) a computation sorts the hook's transaction list itself
listsRead_sortedInPlace ==
  /\ transactions' = sortedTransactions(transactions)
  /\ UNCHANGED categories

\* what the computations do to the hooks' lists: filter, map, reduce and the spread
\* copy [...filteredTransactions] build new arrays, the lists are only read
listsRead == UNCHANGED <<transactions, categories>>

\* the export button, the only caller of exportData: onClick={exportData}
ExportButton ==
  /\ isOpen
  /\ ~exportDisabled
  /\ exportData
  /\ listsRead
  /\ UNCHANGED <<dashVars, storeVars, hookVars, formVars, dateRange,
                 selectedCategories, selectedColumns, exportFormat, transactionType>>

\* the snapshots deliver transactions of one day within the default range
ColumnsSnapshot ==
  /\ DeliverOneMore({parseDate(<<2024, 6, 15>>)})
  /\ NoOutput
  /\ UNCHANGED <<categories, dashVars, storeVars, hookVars, formVars, dateRange,
                 selectedCategories, selectedColumns, exportFormat, transactionType,
                 exportLoading, isOpen>>

NextColumns ==
  \/ OpenExportModal
  \/ CloseExportModal
  \/ SetTransactionType
  \/ handleColumnToggle
  \/ ColumnsSnapshot
  \/ ExportButton

SpecColumns == InitExport /\ [][NextColumns]_vars

\* ------------------------------------------------------------------ the computations over the hooks' lists
\* Dashboard renders: the dashboardStats memo and, in CategoryAnalytics, the
\* categoryStats memo are evaluated over the lists of this render
RenderDashboard ==
  /\ stats' = dashboardStats(transactions, categories, now)
  /\ analytics' = categoryStats(transactions, categories, now)
  /\ listsRead
  /\ effects' = <<Effect("render", "Dashboard")>>
  /\ file' = None
  /\ transactionsWithBalance' = <<>>
  /\ UNCHANGED <<now, authVars, storeVars, hookVars, formVars, dateRange, selectedCategories,
                 selectedColumns, exportFormat, transactionType, exportLoading, isOpen>>

NextRead ==
  \/ ExportTransactionsSnapshot
  \/ RenderDashboard
  \/ OpenExportModal
  \/ CloseExportModal
  \/ ExportButton

SpecRead == InitExport /\ [][NextRead]_vars

\* ------------------------------------------------------------------ the hooks as a state machine
\* the first n elements of a list: limit(n)
Take(s, n) == SubSeq(s, 1, Min(n, Len(s)))

\* a set of category documents in document-id order, the order of a query with no orderBy
RECURSIVE ById(_)
ById(S) ==
  IF S = {} THEN <<>>
  ELSE LET first == CHOOSE x \in S : \A y \in S \ {x} : x.id < y.id
       IN  <<first>> \o ById(S \ {first})

\* a set of transaction documents under orderBy('date', 'desc'); equal dates by document id
RECURSIVE ByDateDesc(_)
ByDateDesc(S) ==
  IF S = {} THEN <<>>
  ELSE LET first == CHOOSE x \in S : \A y \in S \ {x} :
                      x.date > y.date \/ (x.date = y.date /\ x.id < y.id)
       IN  <<first>> \o ByDateDesc(S \ {first})

\* query(collection(db, 'categories'), where('userId', '==', userId))
categoriesQuery(uid) == ById({c \in catStore : c.userId = uid})

\* query(collection(db, 'transactions'), where('userId', '==', userId),
\*       orderBy('date', 'desc'), limit(limitCount))
transactionsQuery(uid) == Take(ByDateDesc({t \in txStore : t.userId = uid}), LimitCount)

HookUsers   == {"u1"}
HookTxDates == {parseDate(<<2024, 6, 15>>), parseDate(<<2024, 7, 31>>)}
CustomNames == {"Pets", "Food"}

\* the document addDoc writes for DEFAULT_CATEGORIES[i]
seedDoc(i, uid) ==
  [name |-> DEFAULT_CATEGORIES[i].name, type |-> DEFAULT_CATEGORIES[i].type,
   color |-> DEFAULT_CATEGORIES[i].color, icon |-> DEFAULT_CATEGORIES[i].icon,
   userId |-> uid, isCustom |-> FALSE, isActive |-> TRUE]

WithId(doc, id) ==
  [id |-> id, name |-> doc.name, type |-> doc.type, color |-> doc.color, icon |-> doc.icon,
   userId |-> doc.userId, isCustom |-> doc.isCustom, isActive |-> doc.isActive]

\* the hook instance whose state the model carries, and another mounted one
Main == "Dashboard"
Peer == "ExportModal"

\* the listener onSnapshot(q, callback) registers
Sub(inst, hook, uid, due) == [inst |-> inst, hook |-> hook, uid |-> uid, due |-> due]

\* a change of the documents of `uid` in a collection: its listeners have a snapshot due
Notify(S, hook, uid) ==
  {IF s.hook = hook /\ s.uid = uid THEN [s EXCEPT !.due = TRUE] ELSE s : s \in S}

\* the listener s has delivered its snapshot
Served(S, s) == (S \ {s}) \cup {[s EXCEPT !.due = FALSE]}

\* a user is signed in: both hooks have run their effect and subscribed; the first
\* snapshot of each listener is due
InitHooks ==
  /\ now = ExportNow
  /\ stats = None
  /\ analytics = None
  /\ AuthIdle
  /\ ExportModalInit
  /\ ModalsClosed
  /\ transactions = <<>>
  /\ categories = <<>>
  /\ userId \in HookUsers
  /\ catStore = {}
  /\ txStore = {}
  /\ nextId = 1
  /\ docCap = MaxDocs
  /\ subs = {Sub(Main, "transactions", userId, TRUE), Sub(Main, "categories", userId, TRUE)}
  /\ seedQueue = <<>>
  /\ catLoading = TRUE
  /\ txLoading = TRUE
  /\ hasMore = TRUE
  /\ delivered = None
  /\ inflight = <<>>

uiVars == <<now, stats, analytics, authVars, dateRange, selectedCategories, selectedColumns, exportFormat,
            transactionType, exportLoading, isOpen, file, transactionsWithBalance, formVars>>

\* useTransactions' onSnapshot callback
transactionsCallback(transactionData) ==
  /\ transactions' = transactionData
  /\ hasMore' = (Len(transactionData) = LimitCount)
  /\ txLoading' = FALSE

TransactionsSnapshot ==
  /\ \E s \in subs :
       /\ s.inst = Main /\ s.hook = "transactions" /\ s.due
       /\ subs' = Served(subs, s)
       /\ LET transactionData == transactionsQuery(s.uid)
          IN  /\ transactionsCallback(transactionData)
              /\ delivered' = [hook |-> "transactions", uid |-> s.uid, docs |-> transactionData]
  /\ effects' = <<>>
  /\ UNCHANGED <<uiVars, categories, catLoading, userId, catStore, txStore, nextId, docCap,
                 seedQueue, inflight>>

\* the addDoc calls the seeding issues for `uid`
seedWrites(uid) == [i \in 1..NumDefaults |-> seedDoc(i, uid)]

\* useCategories' onSnapshot callback, of the effect run for `uid`: an empty snapshot
\* starts the seeding (every addDoc is issued before the await) and sets nothing; any
\* other one is set
categoriesCallback(categoryData, uid) ==
  IF Len(categoryData) = 0
  THEN /\ seedQueue' = seedQueue \o seedWrites(uid)
       /\ UNCHANGED <<categories, catLoading>>
  ELSE /\ categories' = categoryData
       /\ catLoading' = FALSE
       /\ UNCHANGED seedQueue

CategoriesSnapshot ==
  /\ \E s \in subs :
       /\ s.inst = Main /\ s.hook = "categories" /\ s.due
       /\ subs' = Served(subs, s)
       /\ LET categoryData == categoriesQuery(s.uid)
          IN  /\ categoriesCallback(categoryData, s.uid)
              /\ delivered' = [hook |-> "categories", uid |-> s.uid, docs |-> categoryData]
  /\ effects' = <<>>
  /\ UNCHANGED <<uiVars, transactions, txLoading, hasMore, userId, catStore, txStore, nextId,
                 docCap, inflight>>

\* one addDoc of the seeding reaches the collection
SeedWriteLands ==
  /\ seedQueue # <<>>
  /\ nextId <= docCap
  /\ catStore' = catStore \cup {WithId(seedQueue[1], nextId)}
  /\ nextId' = nextId + 1
  /\ seedQueue' = Tail(seedQueue)
  /\ subs' = Notify(subs, "categories", seedQueue[1].userId)
  /\ effects' = <<>>
  /\ delivered' = None
  /\ UNCHANGED <<uiVars, listVars, catLoading, txLoading, hasMore, userId, txStore, docCap,
                 inflight>>

\* one addDoc of the seeding is rejected: Promise.all rejects and the catch block logs
SeedWriteFails ==
  /\ seedQueue # <<>>
  /\ seedQueue' = Tail(seedQueue)
  /\ effects' = <<Effect("console.error", "Error creating default categories:")>>
  /\ delivered' = None
  /\ UNCHANGED <<uiVars, listVars, catLoading, txLoading, hasMore, userId, catStore, txStore,
                 nextId, subs, docCap, inflight>>

hookFrame == <<uiVars, listVars, catLoading, txLoading, hasMore, userId, seedQueue, docCap,
               inflight>>

\* what a hook's CRUD function does when its remote call is rejected
Rejected(msg) ==
  /\ effects' = <<Effect("toast.error", msg), Effect("throw", "error")>>
  /\ delivered' = None
  /\ UNCHANGED <<hookFrame, catStore, txStore, nextId, subs>>

addCategory ==
  /\ userId # ""
  /\ \/ /\ nextId <= docCap
        /\ \E name \in CustomNames, type \in Types :
             catStore' = catStore \cup
               {[id |-> nextId, name |-> name, type |-> type, color |-> "#3B82F6",
                 icon |-> "Wallet", userId |-> userId, isCustom |-> TRUE, isActive |-> TRUE]}
        /\ nextId' = nextId + 1
        /\ subs' = Notify(subs, "categories", userId)
        /\ effects' = <<Effect("toast.success", "Category added successfully!")>>
        /\ delivered' = None
        /\ UNCHANGED <<hookFrame, txStore>>
     \/ Rejected("Failed to add category")

\* CategoryModal edits a category of the list: updateDoc merges the fields
updateCategory ==
  /\ \E i \in 1..Len(categories), name \in CustomNames :
       \/ /\ \E c \in catStore : c.id = categories[i].id /\ c.name # name
          /\ catStore' = {IF c.id = categories[i].id THEN [c EXCEPT !.name = name] ELSE c :
                          c \in catStore}
          /\ subs' = Notify(subs, "categories", categories[i].userId)
          /\ effects' = <<Effect("toast.success", "Category updated successfully!")>>
          /\ delivered' = None
          /\ UNCHANGED <<hookFrame, txStore, nextId>>
       \/ Rejected("Failed to update category")

\* a category of the list is deleted
deleteCategory ==
  /\ \E i \in 1..Len(categories) :
       \/ /\ catStore' = {c \in catStore : c.id # categories[i].id}
          /\ subs' = IF catStore' # catStore
                     THEN Notify(subs, "categories", categories[i].userId) ELSE subs
          /\ effects' = <<Effect("toast.success", "Category deleted successfully!")>>
          /\ delivered' = None
          /\ UNCHANGED <<hookFrame, txStore, nextId>>
       \/ Rejected("Failed to delete category")

\* the document TransactionModal submits, with the userId addTransaction adds
HookTx(id, uid, date) ==
  [id |-> id, userId |-> uid, type |-> "expense", amount |-> 1, categoryId |-> 0,
   date |-> date, description |-> "note", paymentMethod |-> "Online Payment", tags |-> <<>>]

addTransaction ==
  /\ userId # ""
  /\ \/ /\ nextId <= docCap
        /\ \E date \in HookTxDates : txStore' = txStore \cup {HookTx(nextId, userId, date)}
        /\ nextId' = nextId + 1
        /\ subs' = Notify(subs, "transactions", userId)
        /\ effects' = <<Effect("toast.success", "Transaction added successfully!")>>
        /\ delivered' = None
        /\ UNCHANGED <<hookFrame, catStore>>
     \/ Rejected("Failed to add transaction")

\* TransactionModal edits a transaction of the list: its date changes
updateTransaction ==
  /\ \E i \in 1..Len(transactions), date \in HookTxDates :
       \/ /\ \E t \in txStore : t.id = transactions[i].id /\ t.date # date
          /\ txStore' = {IF t.id = transactions[i].id THEN [t EXCEPT !.date = date] ELSE t :
                         t \in txStore}
          /\ subs' = Notify(subs, "transactions", transactions[i].userId)
          /\ effects' = <<Effect("toast.success", "Transaction updated successfully!")>>
          /\ delivered' = None
          /\ UNCHANGED <<hookFrame, catStore, nextId>>
       \/ Rejected("Failed to update transaction")

deleteTransaction ==
  /\ \E i \in 1..Len(transactions) :
       \/ /\ txStore' = {t \in txStore : t.id # transactions[i].id}
          /\ subs' = IF txStore' # txStore
                     THEN Notify(subs, "transactions", transactions[i].userId) ELSE subs
          /\ effects' = <<Effect("toast.success", "Transaction deleted successfully!")>>
          /\ delivered' = None
          /\ UNCHANGED <<hookFrame, catStore, nextId>>
       \/ Rejected("Failed to delete transaction")

NextHooks ==
  \/ TransactionsSnapshot
  \/ CategoriesSnapshot
  \/ SeedWriteLands
  \/ SeedWriteFails
  \/ addCategory
  \/ updateCategory
  \/ deleteCategory
  \/ addTransaction
  \/ updateTransaction
  \/ deleteTransaction

SpecHooks == InitHooks /\ [][NextHooks]_vars


\* ------------------------------------------------------------------ pagination: loadMore
\* query(..., where('userId', '==', userId), orderBy('date', 'desc'),
\*       startAfter(lastTransaction.date), limit(limitCount)): startAfter takes the
\* documents whose date comes strictly after the cursor in the query's order
loadMoreQuery(uid, cursor) ==
  Take(ByDateDesc({t \in txStore : t.userId = uid /\ t.date < cursor}), LimitCount)

\* s without its i-th element
RemoveAt(s, i) == SubSeq(s, 1, i - 1) \o SubSeq(s, i + 1, Len(s))

PageDates == {parseDate(<<2024, 5, 1>>), parseDate(<<2024, 6, 15>>), parseDate(<<2024, 7, 31>>)}

\* the dashboard's useTransactions is subscribed for a signed-in user; the collection is
\* empty and the first snapshot is due
InitPage ==
  /\ now = ExportNow
  /\ stats = None
  /\ analytics = None
  /\ AuthIdle
  /\ ExportModalInit
  /\ ModalsClosed
  /\ transactions = <<>>
  /\ categories = <<>>
  /\ userId \in HookUsers
  /\ catStore = {}
  /\ txStore = {}
  /\ nextId = 1
  /\ docCap = MaxPageDocs
  /\ subs = {Sub(Main, "transactions", userId, TRUE)}
  /\ seedQueue = <<>>
  /\ catLoading = TRUE
  /\ txLoading = TRUE
  /\ hasMore = TRUE
  /\ delivered = None
  /\ inflight = <<>>

\* what a change made by another session leaves alone
remoteFrame == <<uiVars, listVars, catLoading, txLoading, hasMore, userId, seedQueue, docCap,
                 inflight, catStore>>

\* another session of the user creates a transaction
RemoteCreate ==
  /\ userId # ""
  /\ nextId <= docCap
  /\ \E date \in PageDates : txStore' = txStore \cup {HookTx(nextId, userId, date)}
  /\ nextId' = nextId + 1
  /\ subs' = Notify(subs, "transactions", userId)
  /\ effects' = <<>>
  /\ delivered' = None
  /\ UNCHANGED remoteFrame

\* another session changes the date of a transaction
RemoteUpdate ==
  /\ \E t \in txStore :
       /\ \E date \in PageDates \ {t.date} :
            txStore' = (txStore \ {t}) \cup {[t EXCEPT !.date = date]}
       /\ subs' = Notify(subs, "transactions", t.userId)
  /\ effects' = <<>>
  /\ delivered' = None
  /\ UNCHANGED <<remoteFrame, nextId>>

\* another session deletes a transaction
RemoteDelete ==
  /\ \E t \in txStore :
       /\ txStore' = txStore \ {t}
       /\ subs' = Notify(subs, "transactions", t.userId)
  /\ effects' = <<>>
  /\ delivered' = None
  /\ UNCHANGED <<remoteFrame, nextId>>

pageFrame == <<uiVars, categories, catLoading, userId, catStore, txStore, nextId, subs, docCap,
               seedQueue>>

\* loadMore up to its await: the guard, setLoading(true), the query from the last
\* transaction of the list and the userId of this render
loadMoreIssued ==
  /\ txLoading' = TRUE
  /\ inflight' = Append(inflight, [uid |-> userId,
                                   cursor |-> transactions[Len(transactions)].date,
                                   served |-> FALSE, result |-> <<>>])
  /\ effects' = <<Effect("setLoading", "true")>>
  /\ delivered' = None
  /\ UNCHANGED <<pageFrame, transactions, hasMore>>

\* a loadMore call that passes the guard, while fewer than MaxInflight calls are pending
LoadMoreStart ==
  /\ ~(~hasMore \/ txLoading \/ Len(transactions) = 0)
  /\ Len(inflight) < MaxInflight
  /\ loadMoreIssued

\* loadMore called in any state of the hook: the guard's early return, or the request
loadMore ==
  IF ~hasMore \/ txLoading \/ Len(transactions) = 0
  THEN /\ effects' = <<Effect("loadMore", "return")>>
       /\ delivered' = None
       /\ UNCHANGED <<pageFrame, transactions, hasMore, txLoading, inflight>>
  ELSE loadMoreIssued

\* the server evaluates the query of a pending getDocs
LoadMoreServed ==
  /\ \E i \in 1..Len(inflight) :
       /\ ~inflight[i].served
       /\ inflight' = [inflight EXCEPT
                         ![i].served = TRUE,
                         ![i].result = loadMoreQuery(inflight[i].uid, inflight[i].cursor)]
  /\ effects' = <<>>
  /\ delivered' = None
  /\ UNCHANGED <<pageFrame, transactions, hasMore, txLoading>>

\* (variant) the catch block without the finally block
loadMoreFailed_noFinally ==
  /\ effects' = <<Effect("toast.error", "Failed to load more transactions")>>
  /\ UNCHANGED <<transactions, hasMore, txLoading>>

\* loadMore's catch and finally blocks
loadMoreFailed ==
  /\ effects' = <<Effect("toast.error", "Failed to load more transactions"),
                  Effect("setLoading", "false")>>
  /\ txLoading' = FALSE
  /\ UNCHANGED <<transactions, hasMore>>

\* loadMore after its await: the new documents are appended to the list of that moment
loadMoreResolved(newTransactions) ==
  /\ transactions' = transactions \o newTransactions
  /\ hasMore' = (Len(newTransactions) = LimitCount)
  /\ txLoading' = FALSE
  /\ effects' = <<Effect("setLoading", "false")>>

LoadMoreCompletes ==
  /\ \E i \in 1..Len(inflight) :
       /\ inflight[i].served
       /\ loadMoreResolved(inflight[i].result)
       /\ delivered' = [hook |-> "loadMore", uid |-> inflight[i].uid,
                        docs |-> inflight[i].result]
       /\ inflight' = RemoveAt(inflight, i)
  /\ UNCHANGED pageFrame

\* getDocs is rejected
LoadMoreFails ==
  /\ \E i \in 1..Len(inflight) : inflight' = RemoveAt(inflight, i)
  /\ loadMoreFailed
  /\ delivered' = None
  /\ UNCHANGED pageFrame

NextPage ==
  \/ TransactionsSnapshot
  \/ RemoteCreate
  \/ RemoteUpdate
  \/ RemoteDelete
  \/ LoadMoreStart
  \/ LoadMoreServed
  \/ LoadMoreCompletes
  \/ LoadMoreFails

SpecPage == InitPage /\ [][NextPage]_vars

\* the hook with loadMore called at any moment, over a collection that grows
NextGuard ==
  \/ TransactionsSnapshot
  \/ RemoteCreate
  \/ loadMore
  \/ LoadMoreServed
  \/ LoadMoreCompletes
  \/ LoadMoreFails

SpecGuard == InitPage /\ [][NextGuard]_vars


\* ------------------------------------------------------------------ pagination over a store at rest
\* the user's collection holds up to MaxPageDocs transactions, several of which may carry
\* the same date (TransactionModal stores new Date(data.date), a date without a time of
\* day); no session changes the collection while the hook pages through it
InitStored ==
  /\ now = ExportNow
  /\ stats = None
  /\ analytics = None
  /\ AuthIdle
  /\ ExportModalInit
  /\ ModalsClosed
  /\ transactions = <<>>
  /\ categories = <<>>
  /\ userId \in HookUsers
  /\ catStore = {}
  /\ \E n \in 0..MaxPageDocs : \E date \in [1..n -> PageDates] :
       /\ txStore = {HookTx(i, userId, date[i]) : i \in 1..n}
       /\ nextId = n + 1
  /\ docCap = MaxPageDocs
  /\ subs = {Sub(Main, "transactions", userId, TRUE)}
  /\ seedQueue = <<>>
  /\ catLoading = TRUE
  /\ txLoading = TRUE
  /\ hasMore = TRUE
  /\ delivered = None
  /\ inflight = <<>>

NextStored ==
  \/ TransactionsSnapshot
  \/ LoadMoreStart
  \/ LoadMoreServed
  \/ LoadMoreCompletes

SpecStored == InitStored /\ [][NextStored]_vars


\* ------------------------------------------------------------------ TransactionModal, CategoryModal
DescriptionMax == 200
NameMax == 50

\* the texts typed into the forms, and String.length of each
Texts == {"", "note", "x50", "x51", "x200", "x201"}
StrLen(text) ==
  CASE text = ""     -> 0
    [] text = "note" -> 4
    [] text = "x50"  -> 50
    [] text = "x51"  -> 51
    [] text = "x200" -> 200
    [] text = "x201" -> 201
    [] text = "Online Payment" -> 14
    [] OTHER -> 6       \* the names, colours and icons of the model: short, not empty

\* register('amount', { valueAsNumber: true }): an empty field is NaN
NaN == [nan |-> TRUE, n |-> 0]
Num(n) == [nan |-> FALSE, n |-> n]
\* what is typed over the empty fields the forms start with
AmountInputs == {Num(0), Num(5)}
DescriptionInputs == {"x200", "x201"}
PaymentInputs == {"Online Payment"}
NameInputs == {"x50", "x51"}

\* the fields of the messages `errors` holds after a failed validation, in form order
ErrorsOf(fields, failed) ==
  LET bad == SelectSeq(fields, LAMBDA f : f \in failed)
  IN  [i \in 1..Len(bad) |-> Effect("errors", bad[i])]

\* (variant) the schema without the upper limit of the description
transactionSchemaErrors_noMax(v) ==
  {f \in {"amount", "categoryId", "description", "paymentMethod"} :
     \/ f = "amount" /\ (v.amount.nan \/ ~(v.amount.n > 0))
     \/ f = "categoryId" /\ v.categoryId = 0
     \/ f = "description" /\ StrLen(v.description) < 1
     \/ f = "paymentMethod" /\ StrLen(v.paymentMethod) < 1}

\* the fields transactionSchema rejects (zodResolver); categoryId 0 is the empty option
transactionSchemaErrors(v) ==
  {f \in {"amount", "categoryId", "description", "paymentMethod"} :
     \/ f = "amount" /\ (v.amount.nan \/ ~(v.amount.n > 0))
     \/ f = "categoryId" /\ v.categoryId = 0
     \/ f = "description" /\ (StrLen(v.description) < 1 \/ StrLen(v.description) > DescriptionMax)
     \/ f = "paymentMethod" /\ StrLen(v.paymentMethod) < 1}

\* the fields categorySchema rejects
categorySchemaErrors(v) ==
  {f \in {"name", "color", "icon"} :
     \/ f = "name" /\ (StrLen(v.name) < 1 \/ StrLen(v.name) > NameMax)
     \/ f = "color" /\ StrLen(v.color) < 1
     \/ f = "icon" /\ StrLen(v.icon) < 1}

\* the values reset({type: initialType, date: today, paymentMethod, tags}) leaves
transactionDefaults(initialType) ==
  [type |-> initialType, amount |-> NaN, categoryId |-> 0, description |-> "",
   date |-> formatyyyyMMdd(now), paymentMethod |-> "Online Payment"]

\* the values reset({...transaction}) leaves in edit mode
transactionValuesOf(t) ==
  [type |-> t.type, amount |-> Num(t.amount), categoryId |-> t.categoryId,
   description |-> t.description, date |-> formatyyyyMMdd(t.date),
   paymentMethod |-> t.paymentMethod]

categoryDefaults == [name |-> "", type |-> "expense", color |-> "#EF4444", icon |-> "Coffee"]

categoryValuesOf(c) == [name |-> c.name, type |-> c.type, color |-> c.color, icon |-> c.icon]

\* categories.filter(cat => cat.type === watchedType)
filteredCategories == SelectSeq(categories, LAMBDA cat : cat.type = txForm.values.type)

\* the categories of a user with the defaults Salary and Food, as the snapshot gave them
ModalCategories(uid) == {WithId(seedDoc(1, uid), 1), WithId(seedDoc(6, uid), 2)}

\* the document addTransaction writes for transactionData
transactionDoc(id, uid, data) ==
  [id |-> id, userId |-> uid, type |-> data.type, amount |-> data.amount,
   categoryId |-> data.categoryId, date |-> data.date, description |-> data.description,
   paymentMethod |-> data.paymentMethod, tags |-> data.tags]

\* a transaction of the user, of the category Food, stored without a payment method
ModalTransactions(uid) ==
  {transactionDoc(3, uid, [type |-> "expense", amount |-> 5, categoryId |-> 2,
                           description |-> "note", date |-> parseDate(<<2024, 7, 31>>),
                           paymentMethod |-> "", tags |-> <<>>])}

\* TransactionModal as a parent mounts it, closed
transactionModalMounted(initialType, transaction) ==
  [isOpen |-> FALSE, initialType |-> initialType, transaction |-> transaction,
   loading |-> FALSE, pending |-> None, showCategoryModal |-> FALSE,
   values |-> IF transaction # None THEN transactionValuesOf(transaction)
              ELSE transactionDefaults(initialType)]

\* CategoryModal as a parent mounts it
categoryModalMounted(open, category) ==
  [isOpen |-> open, category |-> category, loading |-> FALSE, pending |-> None,
   values |-> IF category # None THEN categoryValuesOf(category) ELSE categoryDefaults]

\* a signed-in user whose categories and transactions are loaded, and one of the
\* modals mounted closed: QuickActions' TransactionModal (add mode), a TransactionModal
\* given a transaction of the list, or a CategoryModal given a category of the list
InitModal ==
  /\ now = ExportNow
  /\ stats = None
  /\ analytics = None
  /\ AuthIdle
  /\ ExportModalInit
  /\ userId \in HookUsers
  /\ catStore = ModalCategories(userId)
  /\ categories = ById(catStore)
  /\ txStore = ModalTransactions(userId)
  /\ transactions = transactionsQuery(userId)
  /\ nextId = 4
  /\ docCap = 3 + MaxModalDocs
  /\ subs = {Sub(Main, "transactions", userId, FALSE), Sub(Main, "categories", userId, FALSE)}
  /\ seedQueue = <<>>
  /\ catLoading = FALSE
  /\ txLoading = FALSE
  /\ hasMore = FALSE
  /\ delivered = None
  /\ inflight = <<>>
  /\ \/ /\ txForm = transactionModalMounted("expense", None)
        /\ catForm = None
     \/ /\ \E i \in 1..Len(transactions) :
             txForm = transactionModalMounted("expense", transactions[i])
        /\ catForm = None
     \/ /\ txForm = None
        /\ \E i \in 1..Len(categories) : catForm = categoryModalMounted(FALSE, categories[i])

modalFrame == <<now, stats, analytics, authVars, dateRange, selectedCategories, selectedColumns, exportFormat,
                transactionType, exportLoading, isOpen, file, transactionsWithBalance,
                listVars, catLoading, txLoading, hasMore, userId, seedQueue, docCap, inflight>>

storeFrame == <<catStore, txStore, nextId, subs>>

\* QuickActions.handleQuickAction(type): the effect on [transaction, initialType, reset]
\* resets the form when initialType changes; CategoryModal is mounted with
\* isOpen = showCategoryModal
OpenTransactionModal ==
  /\ txForm # None /\ txForm.transaction = None /\ ~txForm.isOpen
  /\ \E type \in Types :
       txForm' = [txForm EXCEPT
                    !.isOpen = TRUE,
                    !.initialType = type,
                    !.values = IF type # txForm.initialType
                               THEN transactionDefaults(type) ELSE @]
  /\ catForm' = categoryModalMounted(txForm.showCategoryModal, None)
  /\ effects' = <<>>
  /\ delivered' = None
  /\ UNCHANGED <<modalFrame, storeFrame>>

\* the parent of the edit-mode TransactionModal opens it
EditTransaction ==
  /\ txForm # None /\ txForm.transaction # None /\ ~txForm.isOpen
  /\ txForm' = [txForm EXCEPT !.isOpen = TRUE]
  /\ catForm' = categoryModalMounted(txForm.showCategoryModal, None)
  /\ effects' = <<>>
  /\ delivered' = None
  /\ UNCHANGED <<modalFrame, storeFrame>>

\* the form can be used: the modal is open and CategoryModal does not cover it
TransactionFormUsable == txForm # None /\ txForm.isOpen /\ ~txForm.showCategoryModal

\* the Cancel and X buttons: onClose; the form keeps its values
CloseTransactionModal ==
  /\ TransactionFormUsable
  /\ txForm' = [txForm EXCEPT !.isOpen = FALSE]
  /\ catForm' = None
  /\ effects' = <<Effect("onClose", "")>>
  /\ delivered' = None
  /\ UNCHANGED <<modalFrame, storeFrame>>

\* the type toggle: setValue('type', type)
setType(type) == txForm' = [txForm EXCEPT !.values.type = type]

ToggleType ==
  /\ TransactionFormUsable
  /\ \E type \in Types : setType(type)
  /\ effects' = <<>>
  /\ delivered' = None
  /\ UNCHANGED <<modalFrame, storeFrame, catForm>>

\* the category select: the empty option or one of filteredCategories
SelectCategory ==
  /\ TransactionFormUsable
  /\ \E id \in {0} \cup {filteredCategories[i].id : i \in 1..Len(filteredCategories)} :
       txForm' = [txForm EXCEPT !.values.categoryId = id]
  /\ effects' = <<>>
  /\ delivered' = None
  /\ UNCHANGED <<modalFrame, storeFrame, catForm>>

\* the amount, description and payment-method fields
EditTransactionFields ==
  /\ TransactionFormUsable
  /\ \/ \E a \in AmountInputs : txForm' = [txForm EXCEPT !.values.amount = a]
     \/ \E d \in DescriptionInputs : txForm' = [txForm EXCEPT !.values.description = d]
     \/ \E m \in PaymentInputs : txForm' = [txForm EXCEPT !.values.paymentMethod = m]
  /\ effects' = <<>>
  /\ delivered' = None
  /\ UNCHANGED <<modalFrame, storeFrame, catForm>>

\* onSubmit's transactionData
transactionDataOf(v) ==
  [type |-> v.type, amount |-> v.amount.n, categoryId |-> v.categoryId,
   description |-> v.description, date |-> parseDate(v.date),
   paymentMethod |-> v.paymentMethod, tags |-> <<>>]

\* handleSubmit(onSubmit): onSubmit runs only when the resolver found no errors; it
\* returns without a user, else sets loading and calls updateTransaction or addTransaction
transactionSubmitted(errors) ==
  IF errors # {}
  THEN /\ effects' = ErrorsOf(<<"amount", "categoryId", "description", "paymentMethod">>,
                              errors)
       /\ UNCHANGED txForm
  ELSE IF userId = ""
  THEN /\ effects' = <<>>
       /\ UNCHANGED txForm
  ELSE /\ txForm' = [txForm EXCEPT !.loading = TRUE,
                                   !.pending = transactionDataOf(txForm.values)]
       /\ effects' = <<Effect("setLoading", "true"),
                       Effect("call", IF txForm.transaction # None
                                      THEN "updateTransaction" ELSE "addTransaction")>>

\* the submit button, disabled while loading
SubmitTransaction ==
  /\ TransactionFormUsable
  /\ ~txForm.loading
  /\ transactionSubmitted(transactionSchemaErrors(txForm.values))
  /\ delivered' = None
  /\ UNCHANGED <<modalFrame, storeFrame, catForm>>

\* the awaited addTransaction / updateTransaction resolved: toast.success in the hook,
\* then onClose(), reset() and, in finally, setLoading(false)
TransactionCallResolves ==
  /\ txForm # None /\ txForm.pending # None
  /\ LET data == txForm.pending
     IN  IF txForm.transaction # None
         THEN /\ \E t \in txStore : t.id = txForm.transaction.id
              /\ txStore' = {IF t.id = txForm.transaction.id
                             THEN transactionDoc(t.id, t.userId, data) ELSE t : t \in txStore}
              /\ subs' = Notify(subs, "transactions", txForm.transaction.userId)
              /\ effects' = <<Effect("toast.success", "Transaction updated successfully!"),
                              Effect("onClose", ""), Effect("reset", ""),
                              Effect("setLoading", "false")>>
              /\ UNCHANGED nextId
         ELSE /\ nextId <= docCap
              /\ txStore' = txStore \cup {transactionDoc(nextId, userId, data)}
              /\ nextId' = nextId + 1
              /\ subs' = Notify(subs, "transactions", userId)
              /\ effects' = <<Effect("toast.success", "Transaction added successfully!"),
                              Effect("onClose", ""), Effect("reset", ""),
                              Effect("setLoading", "false")>>
  /\ txForm' = [txForm EXCEPT
                  !.isOpen = FALSE, !.loading = FALSE, !.pending = None,
                  !.values = IF txForm.transaction # None
                             THEN transactionValuesOf(txForm.transaction)
                             ELSE transactionDefaults(txForm.initialType)]
  /\ catForm' = None
  /\ delivered' = None
  /\ UNCHANGED <<modalFrame, catStore>>

\* (variant) the modal's catch block closes the modal
transactionCallRejected_closes(msg) ==
  /\ effects' = <<Effect("toast.error", msg), Effect("throw", "error"),
                  Effect("console.error", "Transaction error:"), Effect("onClose", ""),
                  Effect("setLoading", "false")>>
  /\ txForm' = [txForm EXCEPT !.isOpen = FALSE, !.loading = FALSE, !.pending = None]
  /\ catForm' = None

\* the awaited call was rejected: toast.error and throw in the hook, then the modal's
\* catch (console.error) and finally (setLoading(false)); no onClose, no reset
transactionCallRejected(msg) ==
  /\ effects' = <<Effect("toast.error", msg), Effect("throw", "error"),
                  Effect("console.error", "Transaction error:"),
                  Effect("setLoading", "false")>>
  /\ txForm' = [txForm EXCEPT !.loading = FALSE, !.pending = None]
  /\ UNCHANGED catForm

TransactionCallRejects ==
  /\ txForm # None /\ txForm.pending # None
  /\ transactionCallRejected(IF txForm.transaction # None
                             THEN "Failed to update transaction"
                             ELSE "Failed to add transaction")
  /\ delivered' = None
  /\ UNCHANGED <<modalFrame, storeFrame>>

\* "+ Add New Category": setShowCategoryModal(true)
OpenCategoryModal ==
  /\ TransactionFormUsable
  /\ txForm' = [txForm EXCEPT !.showCategoryModal = TRUE]
  /\ catForm' = [catForm EXCEPT !.isOpen = TRUE]
  /\ effects' = <<>>
  /\ delivered' = None
  /\ UNCHANGED <<modalFrame, storeFrame>>

\* the parent of the edit-mode CategoryModal opens it
EditCategory ==
  /\ txForm = None /\ ~catForm.isOpen
  /\ catForm' = [catForm EXCEPT !.isOpen = TRUE]
  /\ effects' = <<>>
  /\ delivered' = None
  /\ UNCHANGED <<modalFrame, storeFrame, txForm>>

CategoryFormUsable == catForm # None /\ catForm.isOpen

\* CategoryModal's onClose: setShowCategoryModal(false) in TransactionModal
categoryModalClosed ==
  txForm' = IF txForm = None THEN txForm ELSE [txForm EXCEPT !.showCategoryModal = FALSE]

CloseCategoryModal ==
  /\ CategoryFormUsable
  /\ catForm' = [catForm EXCEPT !.isOpen = FALSE]
  /\ categoryModalClosed
  /\ effects' = <<Effect("onClose", "")>>
  /\ delivered' = None
  /\ UNCHANGED <<modalFrame, storeFrame>>

\* the name field of CategoryModal
EditCategoryFields ==
  /\ CategoryFormUsable
  /\ \E name \in NameInputs : catForm' = [catForm EXCEPT !.values.name = name]
  /\ effects' = <<>>
  /\ delivered' = None
  /\ UNCHANGED <<modalFrame, storeFrame, txForm>>

\* handleSubmit(onSubmit) of CategoryModal
SubmitCategory ==
  /\ CategoryFormUsable
  /\ ~catForm.loading
  /\ LET errors == categorySchemaErrors(catForm.values)
     IN  IF errors # {}
         THEN /\ effects' = ErrorsOf(<<"name", "color", "icon">>, errors)
              /\ UNCHANGED catForm
         ELSE IF userId = ""
         THEN /\ effects' = <<>>
              /\ UNCHANGED catForm
         ELSE /\ catForm' = [catForm EXCEPT !.loading = TRUE, !.pending = catForm.values]
              /\ effects' = <<Effect("setLoading", "true"),
                              Effect("call", IF catForm.category # None
                                             THEN "updateCategory" ELSE "addCategory")>>
  /\ delivered' = None
  /\ UNCHANGED <<modalFrame, storeFrame, txForm>>

\* the awaited addCategory / updateCategory resolved
CategoryCallResolves ==
  /\ catForm # None /\ catForm.pending # None
  /\ LET v == catForm.pending
     IN  IF catForm.category # None
         THEN /\ \E c \in catStore : c.id = catForm.category.id
              /\ catStore' = {IF c.id = catForm.category.id
                              THEN [c EXCEPT !.name = v.name, !.type = v.type,
                                             !.color = v.color, !.icon = v.icon]
                              ELSE c : c \in catStore}
              /\ subs' = Notify(subs, "categories", catForm.category.userId)
              /\ effects' = <<Effect("toast.success", "Category updated successfully!"),
                              Effect("onClose", ""), Effect("reset", ""),
                              Effect("setLoading", "false")>>
              /\ UNCHANGED nextId
         ELSE /\ nextId <= docCap
              /\ catStore' = catStore \cup
                   {[id |-> nextId, name |-> v.name, type |-> v.type, color |-> v.color,
                     icon |-> v.icon, userId |-> userId, isCustom |-> TRUE,
                     isActive |-> TRUE]}
              /\ nextId' = nextId + 1
              /\ subs' = Notify(subs, "categories", userId)
              /\ effects' = <<Effect("toast.success", "Category added successfully!"),
                              Effect("onClose", ""), Effect("reset", ""),
                              Effect("setLoading", "false")>>
  /\ catForm' = [catForm EXCEPT
                   !.isOpen = FALSE, !.loading = FALSE, !.pending = None,
                   !.values = IF catForm.category # None
                              THEN categoryValuesOf(catForm.category) ELSE categoryDefaults]
  /\ categoryModalClosed
  /\ delivered' = None
  /\ UNCHANGED <<modalFrame, txStore>>

\* the awaited call was rejected: as in TransactionModal
CategoryCallRejects ==
  /\ catForm # None /\ catForm.pending # None
  /\ effects' = <<Effect("toast.error", IF catForm.category # None
                                        THEN "Failed to update category"
                                        ELSE "Failed to add category"),
                  Effect("throw", "error"),
                  Effect("console.error", "Category error:"),
                  Effect("setLoading", "false")>>
  /\ catForm' = [catForm EXCEPT !.loading = FALSE, !.pending = None]
  /\ delivered' = None
  /\ UNCHANGED <<modalFrame, storeFrame, txForm>>

NextModal ==
  \/ OpenTransactionModal
  \/ EditTransaction
  \/ CloseTransactionModal
  \/ ToggleType
  \/ SelectCategory
  \/ EditTransactionFields
  \/ SubmitTransaction
  \/ TransactionCallResolves
  \/ TransactionCallRejects
  \/ OpenCategoryModal
  \/ EditCategory
  \/ CloseCategoryModal
  \/ EditCategoryFields
  \/ SubmitCategory
  \/ CategoryCallResolves
  \/ CategoryCallRejects

SpecModal == InitModal /\ [][NextModal]_vars


\* ------------------------------------------------------------------ first use: several useCategories instances

\* the other components that call useCategories while Dashboard is mounted: ExportModal
\* (rendered by Header) and TransactionModal (rendered by QuickActions)
SeedPeers == {Peer, "TransactionModal"}

\* a user without categories signs in: every instance has subscribed and the first
\* snapshot of each is due
InitSeed ==
  /\ now = ExportNow
  /\ stats = None
  /\ analytics = None
  /\ AuthIdle
  /\ ExportModalInit
  /\ ModalsClosed
  /\ transactions = <<>>
  /\ categories = <<>>
  /\ userId \in HookUsers
  /\ catStore = {}
  /\ txStore = {}
  /\ nextId = 1
  /\ docCap = NumDefaults * (1 + Cardinality(SeedPeers))
  /\ subs = {Sub(inst, "categories", userId, TRUE) : inst \in {Main} \cup SeedPeers}
  /\ seedQueue = <<>>
  /\ catLoading = TRUE
  /\ txLoading = TRUE
  /\ hasMore = TRUE
  /\ delivered = None
  /\ inflight = <<>>

\* the onSnapshot callback of another instance: its list is its own state, its seeding
\* writes to the same collection
PeerCategoriesSnapshot ==
  /\ \E s \in subs :
       /\ s.inst # Main /\ s.hook = "categories" /\ s.due
       /\ subs' = Served(subs, s)
       /\ seedQueue' = IF Len(categoriesQuery(s.uid)) = 0
                       THEN seedQueue \o seedWrites(s.uid) ELSE seedQueue
  /\ effects' = <<>>
  /\ delivered' = None
  /\ UNCHANGED <<uiVars, listVars, catLoading, txLoading, hasMore, userId, catStore, txStore,
                 nextId, docCap, inflight>>

\* every addDoc of the seeding succeeds
NextSeed ==
  \/ CategoriesSnapshot
  \/ PeerCategoriesSnapshot
  \/ SeedWriteLands

SpecSeed == InitSeed /\ [][NextSeed]_vars

\* ------------------------------------------------------------------ the userId passed to the hooks changes

SessionUsers == {"u1", "u2"}

\* each user has a category; u1 has more transactions than a page, u2 has one
SessionCategories == {WithId(seedDoc(1, "u1"), 1), WithId(seedDoc(1, "u2"), 2)}

SessionTransactions ==
  {HookTx(3, "u1", parseDate(<<2024, 7, 31>>)), HookTx(4, "u1", parseDate(<<2024, 6, 15>>)),
   HookTx(5, "u1", parseDate(<<2024, 5, 1>>)), HookTx(6, "u2", parseDate(<<2024, 6, 15>>))}

\* u1 is signed in: both hooks of the dashboard have subscribed, the first snapshots are due
InitSession ==
  /\ now = ExportNow
  /\ stats = None
  /\ analytics = None
  /\ AuthIdle
  /\ ExportModalInit
  /\ ModalsClosed
  /\ transactions = <<>>
  /\ categories = <<>>
  /\ userId = "u1"
  /\ catStore = SessionCategories
  /\ txStore = SessionTransactions
  /\ nextId = 7
  /\ docCap = 6
  /\ subs = {Sub(Main, "transactions", userId, TRUE), Sub(Main, "categories", userId, TRUE)}
  /\ seedQueue = <<>>
  /\ catLoading = TRUE
  /\ txLoading = TRUE
  /\ hasMore = TRUE
  /\ delivered = None
  /\ inflight = <<>>

\* the listeners the two effects register for uid: none for the empty string
\* (if (!userId) return)
subscribed(uid) ==
  IF uid = "" THEN {}
  ELSE {Sub(Main, "transactions", uid, TRUE), Sub(Main, "categories", uid, TRUE)}

\* (variant) the effects return no cleanup: the old listeners stay registered
resubscribe_noCleanup(uid) == subs' = subs \cup subscribed(uid)

\* the effects on [userId] run again: the cleanup (unsubscribe) of the previous run, then
\* the new run
resubscribe(uid) == subs' = {s \in subs : s.inst # Main} \cup subscribed(uid)

\* useAuth's user changes (sign-out, another user signs in): the component renders with
\* the new user?.id || ''; the state cells of the hooks keep their values
SetUserId ==
  /\ \E uid \in ({""} \cup SessionUsers) \ {userId} :
       /\ userId' = uid
       /\ resubscribe(uid)
  /\ effects' = <<>>
  /\ delivered' = None
  /\ UNCHANGED <<uiVars, listVars, catLoading, txLoading, hasMore, catStore, txStore, nextId,
                 docCap, seedQueue, inflight>>

NextSession ==
  \/ SetUserId
  \/ TransactionsSnapshot
  \/ CategoriesSnapshot
  \/ LoadMoreStart
  \/ LoadMoreServed
  \/ LoadMoreCompletes
  \/ LoadMoreFails

SpecSession == InitSession /\ [][NextSession]_vars

\* ------------------------------------------------------------------ useAuth.ts
AuthUsers == {"u1", "u2"}

\* the sessions the auth listener can observe: null, or a FirebaseUser
Sessions == {None} \cup {[uid |-> uid] : uid \in AuthUsers}

\* the document of `uid` in the users collection
userDocOf(uid) == [uid |-> uid, displayName |-> "User"]

\* useAuth is mounted: user and firebaseUser null, loading true, the listener not yet
\* called; the users collection holds the profiles of some accounts
InitAuth ==
  /\ now = ExportNow
  /\ stats = None
  /\ analytics = None
  /\ ExportModalInit
  /\ HooksIdle
  /\ ModalsClosed
  /\ transactions = <<>>
  /\ categories = <<>>
  /\ user = None
  /\ firebaseUser = None
  /\ authLoading = TRUE
  /\ authCalls = <<>>
  /\ userDocs \in SUBSET {userDocOf(uid) : uid \in AuthUsers}
  /\ authChanges = 0

authFrame == <<listVars, now, stats, analytics, storeVars, hookVars, formVars, dateRange,
               selectedCategories, selectedColumns, exportFormat, transactionType,
               exportLoading, isOpen, file, transactionsWithBalance>>

\* the listener's callback up to its first await, or to its end for a null session
authCallback(session) ==
  /\ firebaseUser' = session
  /\ IF session # None
     THEN /\ authCalls' = Append(authCalls, [uid |-> session.uid, step |-> "getDoc"])
          /\ effects' = <<>>
          /\ UNCHANGED <<user, authLoading>>
     ELSE /\ user' = None
          /\ authLoading' = FALSE
          /\ effects' = <<Effect("setLoading", "false")>>
          /\ UNCHANGED authCalls

\* the auth state changes (restored session, sign-in, sign-out) and the listener is called
onAuthStateChanged ==
  /\ authChanges < MaxAuthChanges
  /\ \E session \in Sessions :
       /\ authChanges > 0 => session # firebaseUser
       /\ authCallback(session)
  /\ authChanges' = authChanges + 1
  /\ UNCHANGED <<userDocs, authFrame>>

\* setUser({ id: firebaseUser.uid, ...userData }) and the setLoading(false) that ends the
\* callback
profileLoaded(uid, userData) ==
  /\ user' = [id |-> uid, displayName |-> userData.displayName]
  /\ authLoading' = FALSE
  /\ effects' = <<Effect("setLoading", "false")>>

\* (variant) setLoading(false) placed at the end of the try block
profileFailed_loadingInTry ==
  /\ effects' = <<Effect("console.error", "Error fetching user data:"),
                  Effect("toast.error", "Failed to load user data")>>
  /\ UNCHANGED <<user, authLoading>>

\* the catch block and the setLoading(false) that ends the callback
profileFailed ==
  /\ effects' = <<Effect("console.error", "Error fetching user data:"),
                  Effect("toast.error", "Failed to load user data"),
                  Effect("setLoading", "false")>>
  /\ authLoading' = FALSE
  /\ UNCHANGED user

\* getDoc resolves: the profile exists, or setDoc is issued for a new one
GetDocResolves ==
  /\ \E i \in 1..Len(authCalls) :
       /\ authCalls[i].step = "getDoc"
       /\ LET uid == authCalls[i].uid
          IN  IF userDocOf(uid) \in userDocs
              THEN /\ profileLoaded(uid, userDocOf(uid))
                   /\ authCalls' = RemoveAt(authCalls, i)
              ELSE /\ authCalls' = [authCalls EXCEPT ![i].step = "setDoc"]
                   /\ effects' = <<>>
                   /\ UNCHANGED <<user, authLoading>>
  /\ UNCHANGED <<firebaseUser, userDocs, authChanges, authFrame>>

GetDocRejects ==
  /\ \E i \in 1..Len(authCalls) :
       /\ authCalls[i].step = "getDoc"
       /\ authCalls' = RemoveAt(authCalls, i)
  /\ profileFailed
  /\ UNCHANGED <<firebaseUser, userDocs, authChanges, authFrame>>

\* setDoc resolves: the new profile is stored and becomes the user
SetDocResolves ==
  /\ \E i \in 1..Len(authCalls) :
       /\ authCalls[i].step = "setDoc"
       /\ userDocs' = userDocs \cup {userDocOf(authCalls[i].uid)}
       /\ profileLoaded(authCalls[i].uid, userDocOf(authCalls[i].uid))
       /\ authCalls' = RemoveAt(authCalls, i)
  /\ UNCHANGED <<firebaseUser, authChanges, authFrame>>

SetDocRejects ==
  /\ \E i \in 1..Len(authCalls) :
       /\ authCalls[i].step = "setDoc"
       /\ authCalls' = RemoveAt(authCalls, i)
  /\ profileFailed
  /\ UNCHANGED <<firebaseUser, userDocs, authChanges, authFrame>>

NextAuth ==
  \/ onAuthStateChanged
  \/ GetDocResolves
  \/ GetDocRejects
  \/ SetDocResolves
  \/ SetDocRejects

SpecAuth == InitAuth /\ [][NextAuth]_vars


\* ------------------------------------------------------------------ reference quantities of the claims
\* (stated from the calendar and the lists, not from the operators above)
RECURSIVE SetSum(_)
SetSum(S) == IF S = {} THEN 0
             ELSE LET t == CHOOSE x \in S : TRUE IN t.amount + SetSum(S \ {t})

RECURSIVE SumValue(_)
SumValue(entries) == IF entries = <<>> THEN 0 ELSE entries[1].value + SumValue(Tail(entries))

\* the closed interval of month mi: from its first instant to its last
InClosedMonth(t, mi) == t.date >= FirstDay(mi) /\ t.date <= LastDay(mi) + 1

MonthSet(mi, type) ==
  {t \in SeqToSet(transactions) : t.type = type /\ InClosedMonth(t, mi)}

RefMonth == MonthIdx(now)
CurIncome   == SetSum(MonthSet(RefMonth, "income"))
CurExpenses == SetSum(MonthSet(RefMonth, "expense"))
PrevIncome   == SetSum(MonthSet(RefMonth - 1, "income"))
PrevExpenses == SetSum(MonthSet(RefMonth - 1, "expense"))

\* q is exactly (cur - prev) / prev * 100
IsPercentChange(q, cur, prev) ==
  q.den > 0 /\ q.num * prev = (cur - prev) * 100 * q.den

\* ------------------------------------------------------------------ C1
\* C1 (as claimed): the values of the chartData entries add up to totalExpenses, the
\* sum of the amounts of the current-month expense transactions.
C1_ChartSumIsTotalExpenses ==
  /\ stats.totalExpenses = CurExpenses
  /\ SumValue(stats.chartData) = stats.totalExpenses

\* ------------------------------------------------------------------ C2
\* C2: each percentage change is exactly 0 when the previous month's value is 0 or
\* negative, and (current - previous) / previous * 100 otherwise.
C2_PercentChanges ==
  LET prevBalance == PrevIncome - PrevExpenses
      curBalance  == CurIncome - CurExpenses
  IN  /\ PrevIncome <= 0   => stats.incomeChange = Zero
      /\ PrevIncome > 0    => IsPercentChange(stats.incomeChange, CurIncome, PrevIncome)
      /\ PrevExpenses <= 0 => stats.expenseChange = Zero
      /\ PrevExpenses > 0  => IsPercentChange(stats.expenseChange, CurExpenses, PrevExpenses)
      /\ prevBalance <= 0  => stats.balanceChange = Zero
      /\ prevBalance > 0   => IsPercentChange(stats.balanceChange, curBalance, prevBalance)

\* a negative previous balance beside a non-zero current balance, and a positive
\* previous income that the current income differs from
C2_Witness ==
  /\ PrevIncome - PrevExpenses < 0
  /\ CurIncome - CurExpenses # 0
  /\ stats.balanceChange = Zero
  /\ stats.expenseChange.num # 0

\* ------------------------------------------------------------------ C3
LabelOf(mi) == <<MonthNames[(mi % 12) + 1], mi \div 12>>

\* C3: incomeExpenseData has exactly 6 entries, one per consecutive calendar month,
\* oldest first, the last being the reference month.
C3_SixMonths ==
  /\ Len(stats.incomeExpenseData) = 6
  /\ \A i \in 1..6 : stats.incomeExpenseData[i].month = LabelOf(RefMonth - 6 + i)

\* the last day of July, five months after the shorter February, with an empty list
C3_Witness ==
  /\ now = Instant(2024, 6, 31, 1)
  /\ transactions = <<>>
  /\ Len(stats.incomeExpenseData) = 6
  /\ stats.incomeExpenseData[1].month = <<"Feb", 2024>>

\* ------------------------------------------------------------------ C8
\* C8: a transaction counts for the current month iff its date is in the closed
\* interval of the reference month, for the previous month iff it is in the closed
\* interval of the month before; none counts for both; balance = income - expense.
C8_MonthMembership ==
  LET cur  == SeqToSet(currentMonthTransactions(transactions, now))
      last == SeqToSet(lastMonthTransactions(transactions, now))
  IN  /\ \A t \in SeqToSet(transactions) :
           /\ t \in cur  <=> InClosedMonth(t, RefMonth)
           /\ t \in last <=> InClosedMonth(t, RefMonth - 1)
      /\ cur \cap last = {}
      /\ stats.totalIncome = CurIncome
      /\ stats.totalExpenses = CurExpenses
      /\ stats.balance = CurIncome - CurExpenses
      /\ stats.transactionCount = Cardinality(cur)
      /\ incomeOf(lastMonthTransactions(transactions, now)) = PrevIncome
      /\ expensesOf(lastMonthTransactions(transactions, now)) = PrevExpenses

\* the 31st of March: a transaction on the first instant of March and one on the last
\* day of February, which is the month before
C8_Witness ==
  /\ now = Instant(2024, 2, 31, 0)
  /\ \E i, j \in 1..Len(transactions) :
       /\ transactions[i].date = Instant(2024, 2, 1, 0)
       /\ transactions[j].date = Instant(2024, 1, 29, 0)
       /\ transactions[i].type = "income"
       /\ transactions[j].type = "income"
  /\ stats.totalIncome > 0
  /\ stats.incomeChange # Zero

\* ------------------------------------------------------------------ C9
CurExpenseSet == MonthSet(RefMonth, "expense")

Matched(t) == \E i \in 1..Len(categories) : categories[i].id = t.categoryId

CategoryOfId(id) == CHOOSE c \in SeqToSet(categories) : c.id = id

HasEntry(chart, name, color, value) ==
  \E i \in 1..Len(chart) :
    chart[i].name = name /\ chart[i].color = color /\ chart[i].value = value

\* C9 (as claimed): the breakdown has one entry per category id of the current-month
\* expenses, carrying that category's name and color and the sum of its transactions,
\* and one entry 'Other' of color #6B7280 for all transactions of unmatched ids.
C9_GroupedByCategoryId ==
  LET matchedIds == {t.categoryId : t \in {u \in CurExpenseSet : Matched(u)}}
      unmatched  == {t \in CurExpenseSet : ~Matched(t)}
  IN  /\ Len(stats.chartData) = Cardinality(matchedIds) + (IF unmatched = {} THEN 0 ELSE 1)
      /\ \A id \in matchedIds :
           HasEntry(stats.chartData, CategoryOfId(id).name, CategoryOfId(id).color,
                    SetSum({t \in CurExpenseSet : t.categoryId = id}))
      /\ unmatched # {} => HasEntry(stats.chartData, "Other", "#6B7280", SetSum(unmatched))

\* ------------------------------------------------------------------ reference quantities of the export claims
SignOf(t) == IF t.type = "income" THEN t.amount ELSE 0 - t.amount

\* day strings compared as calendar days
DayLeq(a, b) ==
  \/ a[1] < b[1]
  \/ a[1] = b[1] /\ a[2] < b[2]
  \/ a[1] = b[1] /\ a[2] = b[2] /\ a[3] <= b[3]

\* the day of a transaction, as the user entered it in TransactionModal
DayOfTx(t) == <<YearOf(t.date), MonthOf(t.date) + 1, DayOf(t.date)>>

\* the filter as claimed
Selected(t) ==
  /\ DayLeq(dateRange.start, DayOfTx(t)) /\ DayLeq(DayOfTx(t), dateRange.end)
  /\ (selectedCategories = <<>> \/ \E i \in 1..Len(selectedCategories) :
                                      selectedCategories[i] = t.categoryId)
  /\ (transactionType = "all" \/ transactionType = t.type)

SelectedSet == {t \in SeqToSet(transactions) : Selected(t)}

\* exportData ran last (any other handler leaves effects empty)
ExportRan == effects # <<>>

CellOf(row, label) == row[CHOOSE i \in 1..Len(row) : row[i].label = label].value

\* ------------------------------------------------------------------ C4
\* C4: row 0's runningBalance is its own signed amount, and each later row's is the
\* previous row's plus its own signed amount.
C4_RunningBalance ==
  \A i \in 1..Len(transactionsWithBalance) :
    transactionsWithBalance[i].runningBalance =
      (IF i = 1 THEN 0 ELSE transactionsWithBalance[i - 1].runningBalance)
      + SignOf(transactionsWithBalance[i].tx)

\* an export of two rows, an expense after an income
C4_Witness ==
  /\ file # None
  /\ Len(transactionsWithBalance) >= 2
  /\ transactionsWithBalance[1].tx.type = "income"
  /\ transactionsWithBalance[2].tx.type = "expense"
  /\ transactionsWithBalance[2].runningBalance # transactionsWithBalance[1].runningBalance

\* ------------------------------------------------------------------ C5
\* C5: exportData with an empty filtered set does one thing, the 'nothing to export'
\* error toast: no sort, no file, no onClose, no success toast, no setLoading(true).
C5_NothingToExport ==
  (ExportRan /\ SelectedSet = {}) =>
    /\ effects = <<Effect("toast.error", NoTransactionsMsg)>>
    /\ file = None
    /\ transactionsWithBalance = <<>>
    /\ isOpen
    /\ ~exportLoading

\* exportData ran although the list is not empty: its documents are filtered out
C5_Witness ==
  /\ ExportRan
  /\ SelectedSet = {}
  /\ Len(transactions) >= 2
  /\ effects[1].op = "toast.error"

\* ------------------------------------------------------------------ C6
\* C6: a transaction is in filteredTransactions iff its day is within the range, both
\* days included, and the category list is empty or has its category, and the type
\* filter is 'all' or its type.
C6_Filter ==
  LET filtered == filteredTransactions(transactions, dateRange, selectedCategories,
                                       transactionType)
  IN  /\ \A t \in SeqToSet(transactions) : t \in SeqToSet(filtered) <=> Selected(t)
      /\ Len(filtered) = Cardinality(SelectedSet)

\* a one-day range: the transaction of that day is kept, the others are not
C6_Witness ==
  /\ dateRange.start = dateRange.end
  /\ selectedCategories # <<>>
  /\ transactionType # "all"
  /\ SelectedSet # {}
  /\ SelectedSet # SeqToSet(transactions)
  /\ ExportRan
  /\ file # None

\* ------------------------------------------------------------------ C7
\* dd/MM/yyyy cells compared as calendar days
CellDayLeq(a, b) == DayLeq(<<a[3], a[2], a[1]>>, <<b[3], b[2], b[1]>>)

\* C7: the rows of the Transactions sheet are the filtered transactions, each once, in
\* ascending date order.  (Amounts tell the documents apart.)
C7_RowsSortedPermutation ==
  file # None =>
    LET rows == file.Transactions
    IN  /\ Len(rows) = Cardinality(SelectedSet)
        /\ {CellOf(rows[i], "Amount") : i \in 1..Len(rows)} = {t.amount : t \in SelectedSet}
        /\ \A i \in 1..Len(rows) :
             \A t \in SelectedSet :
               CellOf(rows[i], "Amount") = t.amount =>
                 CellOf(rows[i], "Date") = <<DayOf(t.date), MonthOf(t.date) + 1, YearOf(t.date)>>
        /\ \A i \in 1..(Len(rows) - 1) :
             CellDayLeq(CellOf(rows[i], "Date"), CellOf(rows[i + 1], "Date"))

\* the list holds a later day before an earlier one, and both are exported
C7_Witness ==
  /\ file # None
  /\ Len(file.Transactions) >= 2
  /\ CellOf(file.Transactions[1], "Date") # CellOf(file.Transactions[2], "Date")
  /\ transactions[1].date > transactions[Len(transactions)].date

\* ------------------------------------------------------------------ C10
\* C10 (as claimed): after a snapshot is delivered the hook's list is that snapshot,
\* for the transactions and for the categories, an empty snapshot included.
C10_SnapshotReplacesList ==
  delivered # None =>
    /\ delivered.hook = "transactions" => transactions = delivered.docs
    /\ delivered.hook = "categories" => categories = delivered.docs

\* ------------------------------------------------------------------ C11
IsDateDescending(txs) == \A i \in 1..(Len(txs) - 1) : txs[i].date >= txs[i + 1].date

\* C11 (as claimed): in every reachable state of useTransactions the local transaction
\* list is ordered by date, newest first.
C11_ListDateDescending == IsDateDescending(transactions)

\* ------------------------------------------------------------------ C12
\* the store holds a transaction of the user older than every record of the list
OlderRemains ==
  \E t \in txStore :
    /\ t.userId = userId
    /\ \A i \in 1..Len(transactions) : t.date < transactions[i].date

\* C12 (as claimed): after a snapshot delivery or a successful loadMore, hasMore is true
\* exactly when the store holds a transaction of the user older than every loaded one.
C12_HasMoreAccurate ==
  (delivered # None /\ delivered.hook \in {"transactions", "loadMore"}) =>
    (hasMore <=> OlderRemains)

\* ------------------------------------------------------------------ C13
HasEffect(op) == \E i \in 1..Len(effects) : effects[i].op = op

\* C13: a failed pagination fetch leaves the list and hasMore as they were, shows an
\* error notification, rethrows nothing and resets loading to false.
C13_LoadMoreFailure ==
  [][LoadMoreFails =>
       /\ transactions' = transactions
       /\ hasMore' = hasMore
       /\ txLoading' = FALSE
       /\ \E i \in 1..Len(effects') : effects'[i].op = "toast.error"
       /\ \A i \in 1..Len(effects') : effects'[i].op # "throw"]_vars

\* a fetch has just failed over a loaded, non-empty list that had more to load
C13_Witness ==
  /\ HasEffect("toast.error")
  /\ effects[1].arg = "Failed to load more transactions"
  /\ Len(transactions) > 0
  /\ hasMore
  /\ ~txLoading

\* a step in which the call a modal awaits is rejected
CrudRejected == TransactionCallRejects \/ CategoryCallRejects

C14_HookFailure ==
  [][(\E i \in 1..Len(effects') : effects'[i].op = "toast.error") =>
       /\ \E i \in 1..Len(effects') : effects'[i].op = "throw"
       /\ UNCHANGED <<transactions, categories, catStore, txStore>>]_vars

\* C18: the transaction a submission hands to addTransaction or updateTransaction
\* references a category of the list whose kind is the transaction's kind
C18_KindConsistency ==
  (txForm # None /\ txForm.pending # None) =>
    \E i \in 1..Len(categories) :
      /\ categories[i].id = txForm.pending.categoryId
      /\ categories[i].type = txForm.pending.type

\* the values the transaction form is submitted with are among those C19 names
C19_InvalidTransaction ==
  /\ txForm # None
  /\ LET v == txForm.values
     IN  \/ ~v.amount.nan /\ v.amount.n <= 0
         \/ v.categoryId = 0
         \/ StrLen(v.description) = 0
         \/ StrLen(v.description) > 200
         \/ StrLen(v.paymentMethod) = 0

\* the values the category form is submitted with are among those C19 names
C19_InvalidCategory ==
  /\ catForm # None
  /\ (StrLen(catForm.values.name) = 0 \/ StrLen(catForm.values.name) > 50)

\* C19: submitting the transaction form with an amount <= 0, no category, an empty
\* description, a description of more than 200 characters or no payment method, or the
\* category form with an empty name or one of more than 50 characters, calls no hook
\* function, writes nothing and leaves the modal open
C19_ValidationFirst ==
  [][/\ (SubmitTransaction /\ C19_InvalidTransaction) =>
          /\ \A i \in 1..Len(effects') : effects'[i].op # "call"
          /\ txForm'.isOpen /\ txForm'.pending = None
          /\ UNCHANGED <<catStore, txStore, nextId>>
     /\ (SubmitCategory /\ C19_InvalidCategory) =>
          /\ \A i \in 1..Len(effects') : effects'[i].op # "call"
          /\ catForm'.isOpen /\ catForm'.pending = None
          /\ UNCHANGED <<catStore, txStore, nextId>>]_vars

\* a description of 201 characters was submitted with every other field valid
C19_Witness ==
  /\ txForm # None /\ txForm.isOpen /\ txForm.pending = None
  /\ effects = <<Effect("errors", "description")>>
  /\ txForm.values.description = "x201"

\* every snapshot callback has run and every seeding write has completed
SeedingSettled == seedQueue = <<>> /\ \A s \in subs : ~s.due

\* C15: once the callbacks and the seeding writes have completed, the collection holds
\* each default category exactly once, not custom and active, and nothing else
C15_SeededOnce ==
  SeedingSettled =>
    /\ Cardinality(catStore) = NumDefaults
    /\ \A i \in 1..NumDefaults :
         Cardinality({c \in catStore : c.name = DEFAULT_CATEGORIES[i].name
                                       /\ c.type = DEFAULT_CATEGORIES[i].type
                                       /\ ~c.isCustom /\ c.isActive}) = 1

\* the listeners of the dashboard's instance of a hook
LiveListeners(hook) == {s \in subs : s.inst = Main /\ s.hook = hook}

\* C16: each hook instance has at most one live listener, it is the one of the userId
\* now passed to the hook, and a snapshot applied to a local list comes from the
\* listener of that userId, never from a superseded one
C16_Supersession ==
  /\ \A hook \in {"transactions", "categories"} :
       /\ Cardinality(LiveListeners(hook)) <= 1
       /\ \A s \in LiveListeners(hook) : s.uid = userId
  /\ (delivered # None /\ delivered.hook \in {"transactions", "categories"}) =>
       delivered.uid = userId

\* after u1 was replaced by u2, the transactions snapshot of u2's listener is applied
C16_Witness ==
  /\ userId = "u2"
  /\ delivered # None /\ delivered.hook = "transactions" /\ delivered.uid = "u2"
  /\ Len(transactions) = 1 /\ transactions[1].userId = "u2"

\* C17: every record of the local transaction list and of the local category list is
\* owned by the userId now passed to the hook
C17_UserScoped ==
  /\ \A i \in 1..Len(transactions) : transactions[i].userId = userId
  /\ \A i \in 1..Len(categories) : categories[i].userId = userId

\* C20: a remote failure the code handles (it logs it or notifies it) is shown to the
\* user as a notification
C20_FailureNotified ==
  (HasEffect("console.error") \/ HasEffect("toast.error")) => HasEffect("toast.error")

\* C21: exportData runs only with at least one column selected, and every row of a
\* written file has at least one cell
C21_ColumnsSelected ==
  /\ ExportRan => Len(selectedColumns) >= 1
  /\ file # None =>
       \A i \in 1..Len(file.Transactions) : Len(file.Transactions[i]) >= 1

\* the columns were toggled down to the amount alone, and the file was written
C21_Witness ==
  /\ file # None
  /\ selectedColumns = <<"amount">>
  /\ Len(file.Transactions) >= 1
  /\ Len(file.Transactions[1]) = 1

C29_TotalsAgree ==
  /\ analytics.totalExpenses = stats.totalExpenses
  /\ analytics.totalIncome = stats.totalIncome

\* C30: the last entry of incomeExpenseData carries the current month's income,
\* expenses and balance, the entry before it the previous month's income and expenses,
\* and every entry's netBalance is its income minus its expenses
C30_TrailingSeries ==
  LET series == stats.incomeExpenseData
      k      == Len(series)
  IN  /\ k >= 2
      /\ series[k].income = stats.totalIncome
      /\ series[k].expenses = stats.totalExpenses
      /\ series[k].netBalance = stats.balance
      /\ series[k].income = CurIncome /\ series[k].expenses = CurExpenses
      /\ series[k - 1].income = PrevIncome
      /\ series[k - 1].expenses = PrevExpenses
      /\ \A i \in 1..k : series[i].netBalance = series[i].income - series[i].expenses

\* both the current and the previous month have an income and an expense
C30_Witness ==
  /\ Len(stats.incomeExpenseData) = 6
  /\ stats.incomeExpenseData[6].expenses > 0
  /\ stats.incomeExpenseData[5].income > 0
  /\ stats.incomeExpenseData[6].netBalance # stats.incomeExpenseData[5].netBalance

C24_UniqueIds ==
  \A i, j \in 1..Len(transactions) :
    transactions[i].id = transactions[j].id => i = j

\* C25: over a collection that no one changes, once the first snapshot and the loadMore
\* calls have brought hasMore to false, the list holds every stored transaction of the
\* user exactly once, also when transactions share a date
C25_Complete ==
  (/\ ~hasMore
   /\ ~txLoading
   /\ inflight = <<>>
   /\ \A s \in subs : ~s.due) =>
     /\ {transactions[i].id : i \in 1..Len(transactions)}
          = {t.id : t \in {d \in txStore : d.userId = userId}}
     /\ Len(transactions) = Cardinality({d \in txStore : d.userId = userId})

\* C26 (the guard): a loadMore call made while hasMore is false, loading is true or the
\* list is empty issues no request and leaves the hook's state as it was
C26_GuardReturns ==
  [][(loadMore /\ (~hasMore \/ txLoading \/ Len(transactions) = 0)) =>
       UNCHANGED <<transactions, hasMore, txLoading, inflight, txStore>>]_vars

\* C26: at most one loadMore request is pending at any time
C26_OneInFlight == Len(inflight) <= 1

\* C27: `user` is non-null only while the auth state observed last is a signed-in
\* session of that same account
C27_SessionConsistent ==
  user # None => (firebaseUser # None /\ firebaseUser.uid = user.id)

\* a run of the auth listener's callback reaches its end
AuthCallbackCompletes ==
  \/ onAuthStateChanged /\ firebaseUser' = None
  \/ GetDocResolves /\ Len(authCalls') < Len(authCalls)
  \/ GetDocRejects
  \/ SetDocResolves
  \/ SetDocRejects

\* C28: loading is true when useAuth is constructed and false when a run of the auth
\* callback has ended, for a null session, an existing profile, a created profile and a
\* failed read or write; the failure shows an error notification
C28_LoadingSettles ==
  /\ authLoading = TRUE
  /\ [][/\ AuthCallbackCompletes => ~authLoading'
        /\ (GetDocRejects \/ SetDocRejects) =>
             \E i \in 1..Len(effects') :
               effects'[i] = Effect("toast.error", "Failed to load user data")]_vars

\* the first callback, for a signed-in session, ended in the catch block
C28_Witness ==
  /\ authChanges = 1
  /\ firebaseUser # None
  /\ authCalls = <<>>
  /\ user = None
  /\ ~authLoading
  /\ HasEffect("toast.error")

====
